---- MODULE Spec2Model ----
(***************************************************************************)
(* distninja: the Ninja build graph kept in a Cayley quad store.           *)
(*                                                                         *)
(* The store is a set of quads (subject, predicate, object); the label is  *)
(* always nil.  A quad value is a pair <<kind, text>>: quad.IRI(s) is      *)
(* <<"iri", s>>, quad.String(s) is <<"str", s>>, quad.Time(t) is           *)
(* <<"time", t>>.  Records are written field by field (schema.WriteAsQuads)*)
(* and read back by hydration (schema.LoadTo).  Writing never removes a    *)
(* quad and the store ignores a quad it already holds; only                *)
(* UpdateTargetStatus removes quads.                                       *)
(*                                                                         *)
(* The state is the store.  Each write request of the server (create a     *)
(* rule, create a build, load a ninja file, update a target status) is one *)
(* action; the queries are operators evaluated on a state.  Further        *)
(* specifications follow the writes of concurrent AddBuild calls, a query  *)
(* iteration by iteration, concurrent UpdateTargetStatus calls, the start  *)
(* and shutdown of the server, and the parser line by line.                *)
(***************************************************************************)
EXTENDS Integers, Sequences, FiniteSets, TLC

VARIABLES quads, now, steps, calls, srv, parser

vars == <<quads, now, steps, calls, srv, parser>>

\* calls: the calls on the store in progress, when calls are followed step
\* by step; srv: the life cycle of the server process, when it is followed;
\* parser: the loop of ParseAndLoad, when it is followed line by line.
\* Where requests are served one at a time, whole, they keep these values.
NoCalls == <<>>
NoServer == [kind |-> "none"]
NoParser == [open |-> FALSE]

\* Bound on the number of write requests served in one behaviour.
MaxSteps == 3

-----------------------------------------------------------------------------
(* Quad values and predicates *)

PredicateHasInput == "has_input"
PredicateHasOutput == "has_output"
PredicateHasImplicitDep == "has_implicit_dep"
PredicateHasOrderDep == "has_order_dep"
PredicateDependsOn == "depends_on"

IRI(s) == <<"iri", s>>
String(s) == <<"str", s>>
Time(t) == <<"time", ToString(t)>>

\* quad.Make(subject, predicate, object, nil)
Quad(s, p, o) == <<s, p, o>>

\* the predicate schema.WriteAsQuads gives the field tagged quad:"@type"
RdfType == IRI("rdf:type")

\* fmt.Sprintf("rule:%s", name) and its siblings
RuleIRI(name) == IRI("rule:" \o name)
BuildIRI(id) == IRI("build:" \o id)
TargetIRI(path) == IRI("target:" \o path)
FileIRI(path) == IRI("file:" \o path)

\* reflect zero value of a string or quad.IRI field
IsZero(v) == v[2] = ""

-----------------------------------------------------------------------------
(* Record shapes: the quad tags of the four structs, in field order.  No   *)
(* tag carries the "optional" option, so every field is required.          *)

NinjaRuleFields(rule) ==
    << <<"name", String(rule.Name)>>,
       <<"command", String(rule.Command)>>,
       <<"description", String(rule.Description)>>,
       <<"variables", String(rule.Variables)>> >>

NinjaBuildFields(build) ==
    << <<"build_id", String(build.BuildID)>>,
       <<"rule", build.Rule>>,
       <<"variables", String(build.Variables)>>,
       <<"pool", String(build.Pool)>> >>

NinjaTargetFields(target) ==
    << <<"path", String(target.Path)>>,
       <<"status", String(target.Status)>>,
       <<"hash", String(target.Hash)>>,
       <<"build", target.Build>> >>

NinjaFileFields(file) ==
    << <<"path", String(file.Path)>>,
       <<"file_type", String(file.FileType)>> >>

FieldNames(fields) == {fields[i][1] : i \in 1..Len(fields)}

-----------------------------------------------------------------------------
(* schema.WriteAsQuads through graph.NewWriter: the type quad, then one    *)
(* quad per field in field order; a required field holding the zero value  *)
(* stops the write with an error, the quads written before it stay.        *)

RECURSIVE WriteFields(_, _, _)
WriteFields(id, fields, i) ==
    IF i > Len(fields) THEN [quads |-> {}, ok |-> TRUE]
    ELSE IF IsZero(fields[i][2]) THEN [quads |-> {}, ok |-> FALSE]
    ELSE LET rest == WriteFields(id, fields, i + 1)
         IN  [quads |-> {Quad(id, IRI(fields[i][1]), fields[i][2])} \cup rest.quads,
              ok |-> rest.ok]

WriteAsQuads(id, typ, fields) ==
    LET w == WriteFields(id, fields, 1)
    IN  [quads |-> {Quad(id, RdfType, IRI(typ))} \cup w.quads, ok |-> w.ok]

-----------------------------------------------------------------------------
(* inferFileType *)

UpperLetters == "ABCDEFGHIJKLMNOPQRSTUVWXYZ"
LowerLetters == "abcdefghijklmnopqrstuvwxyz"

\* strings.LastIndex(s, c) for a one-character c; -1 when c does not occur
LastIndex(s, c) ==
    LET hits == {i \in 1..Len(s) : SubSeq(s, i, i) = c}
    IN  IF hits = {} THEN -1 ELSE (CHOOSE i \in hits : \A j \in hits : j <= i) - 1

ToLowerChar(c) ==
    IF \E i \in 1..Len(UpperLetters) : SubSeq(UpperLetters, i, i) = c
    THEN LET i == CHOOSE k \in 1..Len(UpperLetters) : SubSeq(UpperLetters, k, k) = c
         IN  SubSeq(LowerLetters, i, i)
    ELSE c

RECURSIVE ToLower(_)
ToLower(s) == IF s = "" THEN "" ELSE ToLowerChar(Head(s)) \o ToLower(Tail(s))

inferFileType(path) ==
    LET ext == ToLower(SubSeq(path, LastIndex(path, ".") + 2, Len(path)))
    IN  CASE ext \in {"cpp", "cc", "cxx", "c"} -> "source"
          [] ext \in {"h", "hpp", "hxx"} -> "header"
          [] ext \in {"o", "obj"} -> "object"
          [] ext \in {"a", "lib"} -> "library"
          [] ext \in {"exe", ""} -> "executable"
          [] OTHER -> "unknown"

-----------------------------------------------------------------------------
(* NinjaStore.AddRule *)

\* AddRule with the node named after the size of the store instead of
\* after the rule alone
AddRuleFreshNode(q, rule) ==
    LET w == WriteAsQuads(RuleIRI(rule.Name \o "#" \o ToString(Cardinality(q))),
                          "NinjaRule", NinjaRuleFields(rule))
    IN  [quads |-> q \cup w.quads, err |-> ~w.ok]

AddRuleResult(q, rule) ==
    LET w == WriteAsQuads(RuleIRI(rule.Name), "NinjaRule", NinjaRuleFields(rule))
    IN  [quads |-> q \cup w.quads, err |-> ~w.ok]

-----------------------------------------------------------------------------
(* NinjaStore.AddBuild.  Records go to the store one by one as the loops   *)
(* run; the relationship quads are collected and written at the end, so a  *)
(* failing record write returns with the records written so far and none   *)
(* of the relationship quads.                                              *)

NewTarget(output, buildID) ==
    [ID |-> TargetIRI(output), Type |-> IRI("NinjaTarget"), Path |-> output,
     Status |-> "clean", Hash |-> "none", Build |-> buildID]

NewFile(path) ==
    [ID |-> FileIRI(path), Type |-> IRI("NinjaFile"), Path |-> path,
     FileType |-> inferFileType(path)]

\* the loop over outputs: target records written, has_output quads collected
RECURSIVE WriteOutputs(_, _, _)
WriteOutputs(buildID, outputs, i) ==
    IF i > Len(outputs) THEN [written |-> {}, pending |-> {}, ok |-> TRUE]
    ELSE LET target == NewTarget(outputs[i], buildID)
             w == WriteAsQuads(target.ID, "NinjaTarget", NinjaTargetFields(target))
         IN  IF ~w.ok THEN [written |-> w.quads, pending |-> {}, ok |-> FALSE]
             ELSE LET rest == WriteOutputs(buildID, outputs, i + 1)
                  IN  [written |-> w.quads \cup rest.written,
                       pending |-> {Quad(buildID, String(PredicateHasOutput), TargetIRI(outputs[i]))}
                                   \cup rest.pending,
                       ok |-> rest.ok]

\* the quads one input (or implicit dep) contributes: the link from the
\* build and one depends_on from every output
DependencyQuads(buildID, pred, path, outputs) ==
    {Quad(buildID, String(pred), FileIRI(path))}
    \cup {Quad(TargetIRI(outputs[k]), String(PredicateDependsOn), FileIRI(path)) :
            k \in 1..Len(outputs)}

\* the loop over inputs (pred = has_input) and over implicit deps
\* (pred = has_implicit_dep)
RECURSIVE WriteDependencies(_, _, _, _, _)
WriteDependencies(buildID, pred, paths, outputs, i) ==
    IF i > Len(paths) THEN [written |-> {}, pending |-> {}, ok |-> TRUE]
    ELSE LET file == NewFile(paths[i])
             w == WriteAsQuads(file.ID, "NinjaFile", NinjaFileFields(file))
         IN  IF ~w.ok THEN [written |-> w.quads, pending |-> {}, ok |-> FALSE]
             ELSE LET rest == WriteDependencies(buildID, pred, paths, outputs, i + 1)
                  IN  [written |-> w.quads \cup rest.written,
                       pending |-> DependencyQuads(buildID, pred, paths[i], outputs)
                                   \cup rest.pending,
                       ok |-> rest.ok]

OrderDepQuads(buildID, orderDeps) ==
    {Quad(buildID, String(PredicateHasOrderDep), FileIRI(orderDeps[k])) :
        k \in 1..Len(orderDeps)}

AddBuildResult(q, build, inputs, outputs, implicitDeps, orderDeps) ==
    LET buildID == BuildIRI(build.BuildID)
        wb == WriteAsQuads(buildID, "NinjaBuild", NinjaBuildFields(build))
        wo == WriteOutputs(buildID, outputs, 1)
        wi == WriteDependencies(buildID, PredicateHasInput, inputs, outputs, 1)
        wd == WriteDependencies(buildID, PredicateHasImplicitDep, implicitDeps, outputs, 1)
    IN  IF ~wb.ok THEN [quads |-> q \cup wb.quads, err |-> TRUE]
        ELSE IF ~wo.ok THEN [quads |-> q \cup wb.quads \cup wo.written, err |-> TRUE]
        ELSE IF ~wi.ok
             THEN [quads |-> q \cup wb.quads \cup wo.written \cup wi.written, err |-> TRUE]
        ELSE IF ~wd.ok
             THEN [quads |-> q \cup wb.quads \cup wo.written \cup wi.written \cup wd.written,
                   err |-> TRUE]
        ELSE [quads |-> q \cup wb.quads \cup wo.written \cup wi.written \cup wd.written
                          \cup wo.pending \cup wi.pending \cup wd.pending
                          \cup OrderDepQuads(buildID, orderDeps),
              err |-> FALSE]

-----------------------------------------------------------------------------
(* schema.LoadTo: a record is found when its type quad and at least one    *)
(* value of every required field are in the store.  A field that has one   *)
(* value takes it; a field with several values takes one of them, which    *)
(* one depends on the store's iteration order.                             *)

Objects(q, s, p) == {t[3] : t \in {u \in q : u[1] = s /\ u[2] = p}}

Subjects(q, p, o) == {t[1] : t \in {u \in q : u[2] = p /\ u[3] = o}}

Loadable(q, id, typ, names) ==
    /\ Quad(id, RdfType, IRI(typ)) \in q
    /\ \A n \in names : Objects(q, id, IRI(n)) # {}

\* every record LoadTo can return for id; the empty set when it fails
LoadTo(q, id, typ, names) ==
    IF ~Loadable(q, id, typ, names) THEN {}
    ELSE LET values == UNION {Objects(q, id, IRI(n)) : n \in names}
         IN  {h \in [names -> values] : \A n \in names : h[n] \in Objects(q, id, IRI(n))}

RuleFieldNames == {"name", "command", "description", "variables"}
BuildFieldNames == {"build_id", "rule", "variables", "pool"}
TargetFieldNames == {"path", "status", "hash", "build"}
FileFieldNames == {"path", "file_type"}

GetRule(q, name) == LoadTo(q, RuleIRI(name), "NinjaRule", RuleFieldNames)
GetBuild(q, id) == LoadTo(q, BuildIRI(id), "NinjaBuild", BuildFieldNames)
GetTargetByIRI(q, id) == LoadTo(q, id, "NinjaTarget", TargetFieldNames)
GetTarget(q, path) == GetTargetByIRI(q, TargetIRI(path))

-----------------------------------------------------------------------------
(* NinjaStore.UpdateTargetStatus: one transaction that removes every       *)
(* status quad of the target and adds the new status and a timestamp.      *)

\* UpdateTargetStatus without the removal of the old status quads
UpdateTargetStatusKeepOld(q, targetPath, status, t) ==
    LET targetIRI == TargetIRI(targetPath)
    IN  q \cup {Quad(targetIRI, IRI("status"), String(status)),
                Quad(targetIRI, IRI("last_modified"), Time(t))}

\* UpdateTargetStatus removing the hash of the target with its old status
UpdateTargetStatusDropHash(q, targetPath, status, t) ==
    LET targetIRI == TargetIRI(targetPath)
        old == {u \in q : u[1] = targetIRI /\ u[2] \in {IRI("status"), IRI("hash")}}
    IN  (q \ old) \cup {Quad(targetIRI, IRI("status"), String(status)),
                        Quad(targetIRI, IRI("last_modified"), Time(t))}

UpdateTargetStatusResult(q, targetPath, status, t) ==
    LET targetIRI == TargetIRI(targetPath)
        old == {u \in q : u[1] = targetIRI /\ u[2] = IRI("status")}
    IN  (q \ old) \cup {Quad(targetIRI, IRI("status"), String(status)),
                        Quad(targetIRI, IRI("last_modified"), Time(t))}

-----------------------------------------------------------------------------
(* What a query sees.  The store iterates its quads in an order the code   *)
(* does not control, Go iterates its maps in random order, and a field     *)
(* with several values is hydrated to one of them.  A query is therefore   *)
(* evaluated on a snapshot: the quads, the build each target is hydrated   *)
(* with (pick), the order in which the scan meets the files (scan) and the *)
(* order in which the map of target IRIs is ranged over (enum).            *)

Perms(S) ==
    {s \in [1..Cardinality(S) -> S] : \A i, j \in 1..Cardinality(S) : i # j => s[i] # s[j]}

TargetIRIs(q) == Subjects(q, RdfType, IRI("NinjaTarget"))

DependencyFileIRIs(q) ==
    {u[3] : u \in {t \in q : t[2] \in {String(PredicateHasInput),
                                       String(PredicateHasImplicitDep)}}}

\* a node that is marked as a target and has no build value yet cannot be
\* hydrated and takes no part in the choice
Picks(q) ==
    LET hydrated == {t \in TargetIRIs(q) : Objects(q, t, IRI("build")) # {}}
        builds == UNION {Objects(q, t, IRI("build")) : t \in hydrated}
    IN  {c \in [hydrated -> builds] : \A t \in hydrated : c[t] \in Objects(q, t, IRI("build"))}

Snapshots(q) ==
    [quads : {q}, pick : Picks(q), scan : Perms(DependencyFileIRIs(q)),
     enum : Perms(TargetIRIs(q))]

\* the text of a string-valued field that has exactly one value in the store
FieldText(q, id, name) == (CHOOSE o \in Objects(q, id, IRI(name)) : TRUE)[2]

-----------------------------------------------------------------------------
(* NinjaStore.GetAllTargets: the paths of the targets, in range order;     *)
(* a target that cannot be loaded is skipped.                              *)

RECURSIVE LoadTargets(_, _, _)
LoadTargets(q, enum, i) ==
    IF i > Len(enum) THEN <<>>
    ELSE IF ~Loadable(q, enum[i], "NinjaTarget", TargetFieldNames)
         THEN LoadTargets(q, enum, i + 1)
    ELSE <<FieldText(q, enum[i], "path")>> \o LoadTargets(q, enum, i + 1)

GetAllTargets(snap) == LoadTargets(snap.quads, snap.enum, 1)

-----------------------------------------------------------------------------
(* NinjaStore.GetBuildDependencies: load the target, load the build its    *)
(* build field names, then scan all quads for has_input and                *)
(* has_implicit_dep quads of that build and load their files; a file that  *)
(* cannot be loaded is skipped.  The result is the list of file paths.     *)

RECURSIVE ScanDependencies(_, _, _, _)
ScanDependencies(q, buildIRI, scan, i) ==
    IF i > Len(scan) THEN <<>>
    ELSE LET file == scan[i]
             found == Loadable(q, file, "NinjaFile", FileFieldNames)
             asInput == IF Quad(buildIRI, String(PredicateHasInput), file) \in q /\ found
                        THEN <<FieldText(q, file, "path")>> ELSE <<>>
             asImplicit == IF Quad(buildIRI, String(PredicateHasImplicitDep), file) \in q /\ found
                           THEN <<FieldText(q, file, "path")>> ELSE <<>>
         IN  asInput \o asImplicit \o ScanDependencies(q, buildIRI, scan, i + 1)

GetBuildDependencies(snap, targetPath) ==
    LET q == snap.quads
        targetIRI == TargetIRI(targetPath)
    IN  IF ~Loadable(q, targetIRI, "NinjaTarget", TargetFieldNames)
        THEN [err |-> TRUE, deps |-> <<>>]
        ELSE LET buildIRI == snap.pick[targetIRI]
             IN  IF ~Loadable(q, buildIRI, "NinjaBuild", BuildFieldNames)
                 THEN [err |-> TRUE, deps |-> <<>>]
                 ELSE [err |-> FALSE, deps |-> ScanDependencies(q, buildIRI, snap.scan, 1)]

-----------------------------------------------------------------------------
(* NinjaStore.GetReverseDependencies: the nodes with a depends_on quad to  *)
(* file:<path>, loaded as targets; the result is the set of their paths.   *)

\* GetReverseDependencies following the predicate as an IRI
GetReverseDependenciesByIRI(q, filePath) ==
    LET dependents == Subjects(q, IRI(PredicateDependsOn), FileIRI(filePath))
    IN  {FieldText(q, t, "path") :
            t \in {d \in dependents : Loadable(q, d, "NinjaTarget", TargetFieldNames)}}

GetReverseDependencies(q, filePath) ==
    LET dependents == Subjects(q, String(PredicateDependsOn), FileIRI(filePath))
    IN  {FieldText(q, t, "path") :
            t \in {d \in dependents : Loadable(q, d, "NinjaTarget", TargetFieldNames)}}

-----------------------------------------------------------------------------
(* NinjaStore.GetTargetsByRule: a scan for the builds whose rule quad      *)
(* names rule:<ruleName>, then for each of them a scan for its has_output  *)
(* quads, whose targets are loaded and appended.  The order of the list    *)
(* is the store's; the result here tells how often each target occurs in   *)
(* the list.                                                               *)

GetTargetsByRule(q, ruleName) ==
    LET buildIRIs == Subjects(q, IRI("rule"), RuleIRI(ruleName))
    IN  [t \in {n \in TargetIRIs(q) : Loadable(q, n, "NinjaTarget", TargetFieldNames)} |->
            Cardinality({b \in buildIRIs : Quad(b, String(PredicateHasOutput), t) \in q})]

-----------------------------------------------------------------------------
(* NinjaStore.GetBuildStats *)

TypeCount(q, typ) == Cardinality(Subjects(q, RdfType, IRI(typ)))

RelationshipPredicates ==
    {String(PredicateHasInput), String(PredicateHasOutput), String(PredicateHasImplicitDep),
     String(PredicateHasOrderDep), String(PredicateDependsOn)}

GetBuildStats(q) ==
    [rules |-> TypeCount(q, "NinjaRule"),
     builds |-> TypeCount(q, "NinjaBuild"),
     targets |-> TypeCount(q, "NinjaTarget"),
     files |-> TypeCount(q, "NinjaFile"),
     total_quads |-> Cardinality(q),
     relationships |-> Cardinality({u \in q : u[2] \in RelationshipPredicates})]

-----------------------------------------------------------------------------
(* NinjaStore.GetBuildOrder: Kahn's algorithm over the targets.  g maps a  *)
(* target to the list of targets that depend on it, inDegree counts the    *)
(* dependencies of a target that are targets.  zero is the order in which  *)
(* the range over the inDegree map meets the targets.                      *)

\* the loop over the dependencies of one target
RECURSIVE AddEdges(_, _, _, _)
AddEdges(gd, target, deps, i) ==
    IF i > Len(deps) THEN gd
    ELSE LET dep == deps[i]
             next == IF dep \in DOMAIN gd.g
                     THEN [g |-> [gd.g EXCEPT ![dep] = Append(@, target)],
                           inDegree |-> [gd.inDegree EXCEPT ![target] = @ + 1]]
                     ELSE gd
         IN  AddEdges(next, target, deps, i + 1)

\* the loop over all targets; a target whose dependencies cannot be read
\* is skipped
RECURSIVE PopulateDependencies(_, _, _, _)
PopulateDependencies(snap, gd, allTargets, i) ==
    IF i > Len(allTargets) THEN gd
    ELSE LET r == GetBuildDependencies(snap, allTargets[i])
             next == IF r.err THEN gd ELSE AddEdges(gd, allTargets[i], r.deps, 1)
         IN  PopulateDependencies(snap, next, allTargets, i + 1)

\* an initial queue that takes every target, whatever its in-degree
InitialQueueOfAll(inDegree, zero, i) == SubSeq(zero, i, Len(zero))

\* the initial queue: the targets of in-degree 0, in range order
RECURSIVE InitialQueue(_, _, _)
InitialQueue(inDegree, zero, i) ==
    IF i > Len(zero) THEN <<>>
    ELSE (IF inDegree[zero[i]] = 0 THEN <<zero[i]>> ELSE <<>>)
         \o InitialQueue(inDegree, zero, i + 1)

\* the loop over the neighbours of the dequeued target
RECURSIVE Relax(_, _, _)
Relax(st, neighbours, i) ==
    IF i > Len(neighbours) THEN st
    ELSE LET n == neighbours[i]
             d == st.inDegree[n] - 1
         IN  Relax([st EXCEPT !.inDegree[n] = d,
                              !.queue = IF d = 0 THEN Append(@, n) ELSE @],
                   neighbours, i + 1)

RECURSIVE ProcessQueue(_, _)
ProcessQueue(g, st) ==
    IF st.queue = <<>> THEN st.result
    ELSE LET current == Head(st.queue)
             popped == [st EXCEPT !.queue = Tail(@), !.result = Append(@, current)]
         IN  ProcessQueue(g, Relax(popped, g[current], 1))

\* the first half of GetBuildOrder: the maps graph and inDegree
BuildGraph(snap, allTargets) ==
    LET nodes == {allTargets[i] : i \in 1..Len(allTargets)}
        empty == [g |-> [n \in nodes |-> <<>>], inDegree |-> [n \in nodes |-> 0]]
    IN  PopulateDependencies(snap, empty, allTargets, 1)

\* the second half: the queue is drained and the count is compared
TopologicalSort(gd, allTargets, zero) ==
    LET result == ProcessQueue(gd.g, [inDegree |-> gd.inDegree,
                                      queue |-> InitialQueue(gd.inDegree, zero, 1),
                                      result |-> <<>>])
    IN  IF Len(allTargets) = 0 THEN [err |-> FALSE, order |-> <<>>]
        ELSE IF Len(result) # Len(allTargets) THEN [err |-> TRUE, order |-> <<>>]
        ELSE [err |-> FALSE, order |-> result]

GetBuildOrder(snap, zero) ==
    LET allTargets == GetAllTargets(snap)
    IN  TopologicalSort(BuildGraph(snap, allTargets), allTargets, zero)

\* the orders in which the range over inDegree can meet the targets
Zeros(snap) ==
    LET allTargets == GetAllTargets(snap)
    IN  Perms({allTargets[i] : i \in 1..Len(allTargets)})

-----------------------------------------------------------------------------
(* NinjaStore.FindCycles: depth-first search with the colours 1 (visiting) *)
(* and 2 (visited) kept in the map visited, which starts empty: a target   *)
(* enters the map when dfs first marks it.  A dependency is followed only  *)
(* when it is a key of visited.                                            *)

Colour(visited, target) == IF target \in DOMAIN visited THEN visited[target] ELSE 0

SetColour(visited, target, c) ==
    [x \in DOMAIN visited \cup {target} |-> IF x = target THEN c ELSE visited[x]]

\* index of the first occurrence of target in currentPath, 0 when absent
CycleStart(currentPath, target) ==
    LET hits == {i \in 1..Len(currentPath) : currentPath[i] = target}
    IN  IF hits = {} THEN 0 ELSE CHOOSE i \in hits : \A j \in hits : i <= j

RECURSIVE dfs(_, _, _)
RECURSIVE dfsDependencies(_, _, _, _)

dfs(snap, st, target) ==
    IF Colour(st.visited, target) = 1
    THEN LET cycleStart == CycleStart(st.currentPath, target)
         IN  IF cycleStart >= 1
             THEN [st EXCEPT !.cycles =
                       Append(@, SubSeq(st.currentPath, cycleStart, Len(st.currentPath)))]
             ELSE st
    ELSE IF Colour(st.visited, target) = 2 THEN st
    ELSE LET entered == [st EXCEPT !.visited = SetColour(@, target, 1),
                                   !.currentPath = Append(@, target)]
             r == GetBuildDependencies(snap, target)
         IN  IF r.err THEN [entered EXCEPT !.err = TRUE]
             ELSE LET after == dfsDependencies(snap, entered, r.deps, 1)
                  IN  IF after.err THEN after
                      ELSE [after EXCEPT !.visited = SetColour(@, target, 2),
                                         !.currentPath = SubSeq(@, 1, Len(@) - 1)]

dfsDependencies(snap, st, deps, i) ==
    IF i > Len(deps) THEN st
    ELSE LET next == IF deps[i] \in DOMAIN st.visited THEN dfs(snap, st, deps[i]) ELSE st
         IN  IF next.err THEN next ELSE dfsDependencies(snap, next, deps, i + 1)

\* the loop over the targets
RECURSIVE dfsTargets(_, _, _, _)
dfsTargets(snap, st, targets, i) ==
    IF i > Len(targets) THEN st
    ELSE LET next == IF Colour(st.visited, targets[i]) = 0
                     THEN dfs(snap, st, targets[i]) ELSE st
         IN  IF next.err THEN next ELSE dfsTargets(snap, next, targets, i + 1)

FindCycles(snap) ==
    LET start == [visited |-> <<>>, cycles |-> <<>>, currentPath |-> <<>>, err |-> FALSE]
        final == dfsTargets(snap, start, GetAllTargets(snap), 1)
    IN  [err |-> final.err, cycles |-> IF final.err THEN <<>> ELSE final.cycles]

-----------------------------------------------------------------------------
(* Go's strings package, computed on the characters of the string.         *)
(* Positions are 1-based here; Index and LastIndex return Go's 0-based     *)
(* position, -1 when there is none.                                        *)

Char(s, i) == SubSeq(s, i, i)

\* unicode.IsSpace
IsSpace(c) == c \in {" ", "\t", "\n", "\r"}

RECURSIVE TrimLeft(_)
TrimLeft(s) ==
    IF s # "" /\ IsSpace(Char(s, 1)) THEN TrimLeft(SubSeq(s, 2, Len(s))) ELSE s

RECURSIVE TrimRight(_)
TrimRight(s) ==
    IF s # "" /\ IsSpace(Char(s, Len(s))) THEN TrimRight(SubSeq(s, 1, Len(s) - 1)) ELSE s

TrimSpace(s) == TrimRight(TrimLeft(s))

HasPrefix(s, prefix) == Len(s) >= Len(prefix) /\ SubSeq(s, 1, Len(prefix)) = prefix

HasSuffix(s, suffix) ==
    Len(s) >= Len(suffix) /\ SubSeq(s, Len(s) - Len(suffix) + 1, Len(s)) = suffix

Index(s, sep) ==
    LET hits == {i \in 1..(Len(s) - Len(sep) + 1) : SubSeq(s, i, i + Len(sep) - 1) = sep}
    IN  IF hits = {} THEN -1 ELSE (CHOOSE i \in hits : \A j \in hits : i <= j) - 1

\* strings.SplitN(s, sep, n) for a non-empty sep and n # 0; n < 0 is Split
RECURSIVE SplitN(_, _, _)
SplitN(s, sep, n) ==
    LET at == Index(s, sep)
    IN  IF n = 1 \/ at < 0 THEN <<s>>
        ELSE <<SubSeq(s, 1, at)>>
             \o SplitN(SubSeq(s, at + Len(sep) + 1, Len(s)), sep, n - 1)

Split(s, sep) == SplitN(s, sep, -1)

RECURSIVE Fields(_)
Fields(s) ==
    LET t == TrimLeft(s)
        spaces == {i \in 1..Len(t) : IsSpace(Char(t, i))}
        stop == IF spaces = {} THEN Len(t) + 1
                ELSE CHOOSE i \in spaces : \A j \in spaces : i <= j
    IN  IF t = "" THEN <<>>
        ELSE <<SubSeq(t, 1, stop - 1)>> \o Fields(SubSeq(t, stop, Len(t)))

RECURSIVE Join(_, _)
Join(elems, sep) ==
    IF Len(elems) = 0 THEN ""
    ELSE IF Len(elems) = 1 THEN elems[1]
    ELSE elems[1] \o sep \o Join(Tail(elems), sep)

RECURSIVE ReplaceAll(_, _, _)
ReplaceAll(s, old, new) ==
    LET at == Index(s, old)
    IN  IF at < 0 THEN s
        ELSE SubSeq(s, 1, at) \o new
             \o ReplaceAll(SubSeq(s, at + Len(old) + 1, Len(s)), old, new)

-----------------------------------------------------------------------------
(* SetVariables / GetVariables: a map of strings as a JSON object.         *)
(* json.Marshal writes the keys in byte order, without white space, and    *)
(* escapes the quote, the backslash, control characters and <, >, &.       *)

JSONEscapes ==
    << <<"\"", "\\\"">>, <<"\\", "\\\\">>, <<"\t", "\\t">>, <<"\r", "\\r">>,
       <<"\n", "\\n">>, <<"<", "\\u003c">>, <<">", "\\u003e">>, <<"&", "\\u0026">> >>

ByteOrder ==
    " !\"#$%&'()*+,-./0123456789:;<=>?@ABCDEFGHIJKLMNOPQRSTUVWXYZ[\\]^_abcdefghijklmnopqrstuvwxyz{|}~"

\* byte-wise comparison of two strings
RECURSIVE Less(_, _)
Less(a, b) ==
    IF b = "" THEN FALSE
    ELSE IF a = "" THEN TRUE
    ELSE IF Char(a, 1) = Char(b, 1) THEN Less(SubSeq(a, 2, Len(a)), SubSeq(b, 2, Len(b)))
    ELSE Index(ByteOrder, Char(a, 1)) < Index(ByteOrder, Char(b, 1))

EscapeChar(c) ==
    LET hits == {k \in 1..Len(JSONEscapes) : JSONEscapes[k][1] = c}
    IN  IF hits = {} THEN c ELSE JSONEscapes[CHOOSE k \in hits : TRUE][2]

RECURSIVE EscapeString(_)
EscapeString(s) ==
    IF s = "" THEN "" ELSE EscapeChar(Char(s, 1)) \o EscapeString(SubSeq(s, 2, Len(s)))

QuoteString(s) == "\"" \o EscapeString(s) \o "\""

EmptyMap == [k \in {} |-> ""]

MapSet(m, key, value) ==
    [k \in DOMAIN m \cup {key} |-> IF k = key THEN value ELSE m[k]]

Marshal(m) ==
    LET n == Cardinality(DOMAIN m)
        keys == CHOOSE c \in [1..n -> DOMAIN m] :
                    \A i, j \in 1..n : i < j => Less(c[i], c[j])
    IN  "{" \o Join([k \in 1..n |-> QuoteString(keys[k]) \o ":" \o QuoteString(m[keys[k]])], ",")
            \o "}"

SetVariables(variables) ==
    IF Cardinality(DOMAIN variables) = 0 THEN "{}" ELSE Marshal(variables)

\* a JSON string literal whose opening quote is before position i
RECURSIVE ReadString(_, _, _)
ReadString(s, i, acc) ==
    IF i > Len(s) THEN [ok |-> FALSE, value |-> acc, next |-> i]
    ELSE IF Char(s, i) = "\"" THEN [ok |-> TRUE, value |-> acc, next |-> i + 1]
    ELSE IF Char(s, i) = "\\"
         THEN LET hits == {k \in 1..Len(JSONEscapes) :
                              /\ i + Len(JSONEscapes[k][2]) - 1 <= Len(s)
                              /\ SubSeq(s, i, i + Len(JSONEscapes[k][2]) - 1) = JSONEscapes[k][2]}
              IN  IF hits = {} THEN [ok |-> FALSE, value |-> acc, next |-> i]
                  ELSE LET k == CHOOSE h \in hits : TRUE
                       IN  ReadString(s, i + Len(JSONEscapes[k][2]), acc \o JSONEscapes[k][1])
    ELSE ReadString(s, i + 1, acc \o Char(s, i))

\* the members of a JSON object, from position i on
RECURSIVE ReadMembers(_, _, _)
ReadMembers(s, i, m) ==
    IF i > Len(s) \/ Char(s, i) # "\"" THEN [ok |-> FALSE, vars |-> m]
    ELSE LET key == ReadString(s, i + 1, "")
         IN  IF ~key.ok \/ key.next + 1 > Len(s) \/ SubSeq(s, key.next, key.next + 1) # ":\""
             THEN [ok |-> FALSE, vars |-> m]
             ELSE LET val == ReadString(s, key.next + 2, "")
                      read == MapSet(m, key.value, val.value)
                  IN  IF ~val.ok \/ val.next > Len(s) THEN [ok |-> FALSE, vars |-> m]
                      ELSE IF Char(s, val.next) = "}"
                           THEN [ok |-> val.next = Len(s), vars |-> read]
                      ELSE IF Char(s, val.next) = ","
                           THEN ReadMembers(s, val.next + 1, read)
                      ELSE [ok |-> FALSE, vars |-> m]

\* json.Unmarshal into a map of strings
Unmarshal(s) ==
    IF ~HasPrefix(s, "{") THEN [ok |-> FALSE, vars |-> EmptyMap]
    ELSE IF s = "{}" THEN [ok |-> TRUE, vars |-> EmptyMap]
    ELSE ReadMembers(s, 2, EmptyMap)

\* the map and whether the error is nil; the map is nil (empty here) on error
GetVariables(s) ==
    IF s = "" \/ s = "{}" THEN [ok |-> TRUE, vars |-> EmptyMap]
    ELSE LET r == Unmarshal(s)
         IN  IF r.ok THEN r ELSE [ok |-> FALSE, vars |-> EmptyMap]

-----------------------------------------------------------------------------
(* NinjaParser: ParseAndLoad reads the content line by line and writes     *)
(* to the store as it goes; an error returns at once and leaves what was   *)
(* written before it.  A nil currentRule or currentBuild is Nil.           *)

Nil == [nil |-> TRUE]

NonEmpty(part) == part # ""

\* parseFilePaths keeping only the first path
parseFirstPath(input) ==
    IF TrimSpace(input) = "" THEN <<>> ELSE <<Fields(input)[1]>>

parseFilePaths(input) ==
    IF TrimSpace(input) = "" THEN <<>>
    ELSE LET parts == Fields(input)
             unescaped == [k \in 1..Len(parts) |-> ReplaceAll(parts[k], "\\ ", " ")]
         IN  SelectSeq(unescaped, NonEmpty)

\* the outcome of a write, with the text of the error when it failed
WriteResult(a, msg) ==
    [quads |-> a.quads, err |-> a.err, msg |-> IF a.err THEN msg ELSE ""]

\* fmt.Errorf("...: %w", err) around the error of a failed save
Wrap(b, prefix) == [b EXCEPT !.msg = IF b.err THEN prefix \o @ ELSE ""]

\* msg is the text of the error, up to the part AddRule or AddBuild wrap
saveBuild(q, pb) ==
    IF Len(pb.Outputs) = 0
    THEN [quads |-> q, err |-> TRUE, msg |-> "build must have at least one output"]
    ELSE WriteResult(AddBuildResult(q,
                                    [BuildID |-> Join(pb.Outputs, ","),
                                     Rule |-> RuleIRI(pb.Rule),
                                     Variables |-> SetVariables(pb.Variables),
                                     Pool |-> pb.Pool],
                                    pb.Inputs, pb.Outputs, pb.ImplicitDeps, pb.OrderDeps),
                     "failed to write")

\* SaveRule without the test of the command
SaveRuleUnchecked(q, currentRule, final) ==
    IF currentRule.nil THEN [quads |-> q, err |-> FALSE, msg |-> ""]
    ELSE WriteResult(AddRuleResult(q, currentRule),
                     (IF final THEN "failed to add final rule " ELSE "failed to add rule ")
                         \o currentRule.Name \o ": failed to write rule")

\* "save previous rule if exists and it's complete"; final is TRUE for the
\* flush at the end of the input
SaveRule(q, currentRule, final) ==
    IF currentRule.nil THEN [quads |-> q, err |-> FALSE, msg |-> ""]
    ELSE IF currentRule.Command = ""
    THEN [quads |-> q, err |-> TRUE,
          msg |-> "rule " \o currentRule.Name \o " is missing required command"]
    ELSE WriteResult(AddRuleResult(q, currentRule),
                     (IF final THEN "failed to add final rule " ELSE "failed to add rule ")
                         \o currentRule.Name \o ": failed to write rule")

\* "save previous build if exists"
SaveBuild(q, currentBuild, final) ==
    IF currentBuild.nil THEN [quads |-> q, err |-> FALSE, msg |-> ""]
    ELSE Wrap(saveBuild(q, currentBuild),
              IF final THEN "failed to save final build: " ELSE "failed to save build: ")

\* the loop that joins a line ending in $ with the lines after it
RECURSIVE JoinContinuations(_, _, _)
JoinContinuations(lines, i, line) ==
    IF HasSuffix(line, "$") /\ i < Len(lines)
    THEN JoinContinuations(lines, i + 1,
                           SubSeq(line, 1, Len(line) - 1) \o " " \o TrimSpace(lines[i + 1]))
    ELSE [line |-> line, i |-> i]

\* a rule statement: the new currentRule
ParseRuleLine(line) ==
    [nil |-> FALSE, Name |-> TrimSpace(SubSeq(line, 6, Len(line))), Command |-> "",
     Description |-> "", Variables |-> "{}"]

\* a build statement: the new currentBuild, Nil for a line that is skipped
ParseBuildLine(line) ==
    LET buildLine == TrimSpace(SubSeq(line, 7, Len(line)))
        colonParts == SplitN(buildLine, ":", 2)
    IN  IF Len(colonParts) # 2 THEN Nil
        ELSE LET outputs == parseFilePaths(colonParts[1])
                 rest == TrimSpace(colonParts[2])
                 parts == Fields(rest)
             IN  IF Len(parts) = 0 THEN Nil
                 ELSE LET depString == Join(Tail(parts), " ")
                          orderParts == Split(depString, "||")
                          hasOrder == Len(parts) > 1 /\ Len(orderParts) > 1
                          afterOrder == IF hasOrder THEN TrimSpace(orderParts[1]) ELSE depString
                          implicitParts == Split(afterOrder, "|")
                          hasImplicit == Len(parts) > 1 /\ Len(implicitParts) > 1
                          afterImplicit == IF hasImplicit THEN TrimSpace(implicitParts[1])
                                           ELSE afterOrder
                      IN  [nil |-> FALSE,
                           Rule |-> parts[1],
                           Outputs |-> outputs,
                           Inputs |-> IF Len(parts) > 1 /\ afterImplicit # ""
                                      THEN parseFilePaths(afterImplicit) ELSE <<>>,
                           ImplicitDeps |-> IF hasImplicit
                                            THEN parseFilePaths(TrimSpace(implicitParts[2]))
                                            ELSE <<>>,
                           OrderDeps |-> IF hasOrder
                                         THEN parseFilePaths(TrimSpace(orderParts[2]))
                                         ELSE <<>>,
                           Variables |-> EmptyMap,
                           Pool |-> "default"]

\* an indented line below a rule
ParseRuleProperty(currentRule, line) ==
    LET parts == SplitN(line, "=", 2)
        key == TrimSpace(parts[1])
        value == TrimSpace(parts[2])
    IN  IF Len(parts) # 2 THEN currentRule
        ELSE IF key = "command" THEN [currentRule EXCEPT !.Command = value]
        ELSE IF key = "description" THEN [currentRule EXCEPT !.Description = value]
        ELSE [currentRule EXCEPT
                 !.Variables = SetVariables(MapSet(GetVariables(@).vars, key, value))]

\* an indented line below a build
ParseBuildVariable(currentBuild, line) ==
    LET parts == SplitN(line, "=", 2)
        key == TrimSpace(parts[1])
        value == TrimSpace(parts[2])
    IN  IF Len(parts) # 2 THEN currentBuild
        ELSE IF key = "pool" THEN [currentBuild EXCEPT !.Pool = value]
        ELSE [currentBuild EXCEPT !.Variables = MapSet(@, key, value)]

\* the outcome of one iteration of the loop: the error it returns with,
\* or the parser state it leaves and the index of the next line
Return(r) ==
    [err |-> TRUE, msg |-> r.msg, next |-> 0,
     st |-> [quads |-> r.quads, currentRule |-> Nil, currentBuild |-> Nil]]

\* Continue that stays on the line it was given
ContinueSameLine(st, next) == [err |-> FALSE, msg |-> "", next |-> next - 1, st |-> st]

Continue(st, next) == [err |-> FALSE, msg |-> "", next |-> next, st |-> st]

\* a statement line: c is the line after joining, r and b are the results
\* of saving the open rule and the open build
ParseStatement(lines, c, st, r, b) ==
    IF HasPrefix(c.line, "rule ")
    THEN IF r.err THEN Return(r)
         ELSE Continue([st EXCEPT !.quads = r.quads,
                                  !.currentRule = ParseRuleLine(c.line)], c.i + 1)
    ELSE IF HasPrefix(c.line, "build ")
    THEN IF r.err THEN Return(r)
         ELSE IF b.err THEN Return(b)
         ELSE LET pb == ParseBuildLine(c.line)
              IN  Continue([quads |-> b.quads, currentRule |-> Nil,
                            currentBuild |-> IF pb.nil THEN st.currentBuild ELSE pb],
                           c.i + 1)
    ELSE IF HasPrefix(c.line, "pool ") \/ HasPrefix(c.line, "variable ")
    THEN IF r.err THEN Return(r)
         ELSE IF b.err THEN Return(b)
         ELSE Continue([quads |-> b.quads, currentRule |-> Nil, currentBuild |-> Nil],
                       c.i + 1)
    ELSE IF HasPrefix(lines[c.i], "  ") \/ HasPrefix(lines[c.i], "\t")
    THEN IF ~st.currentRule.nil
         THEN Continue([st EXCEPT !.currentRule = ParseRuleProperty(@, c.line)], c.i + 1)
         ELSE IF ~st.currentBuild.nil
         THEN Continue([st EXCEPT !.currentBuild = ParseBuildVariable(@, c.line)], c.i + 1)
         ELSE Continue(st, c.i + 1)
    ELSE Continue(st, c.i + 1)

\* the build is saved on the store the save of the rule left
SaveOpen(lines, c, st, r) ==
    ParseStatement(lines, c, st, r, SaveBuild(r.quads, st.currentBuild, FALSE))

\* one iteration of the loop, on line i
ParseLine(lines, i, st) ==
    IF TrimSpace(lines[i]) = "" \/ HasPrefix(TrimSpace(lines[i]), "#")
    THEN Continue(st, i + 1)
    ELSE SaveOpen(lines, JoinContinuations(lines, i, TrimSpace(lines[i])), st,
                  SaveRule(st.quads, st.currentRule, FALSE))

\* the flush at the end of the input
SaveFinal(st, r) == IF r.err THEN r ELSE SaveBuild(r.quads, st.currentBuild, TRUE)

\* the loop over the lines, then the flush of what is still open
RECURSIVE ParseLines(_, _, _)

Resume(lines, s) ==
    IF s.err THEN [quads |-> s.st.quads, err |-> TRUE, msg |-> s.msg]
    ELSE ParseLines(lines, s.next, s.st)

ParseLines(lines, i, st) ==
    IF i > Len(lines)
    THEN SaveFinal(st, SaveRule(st.quads, st.currentRule, TRUE))
    ELSE Resume(lines, ParseLine(lines, i, st))

ParseAndLoad(q, content) ==
    ParseLines(Split(content, "\n"), 1, [quads |-> q, currentRule |-> Nil, currentBuild |-> Nil])

-----------------------------------------------------------------------------
(* Requests *)

RuleNames == {"cc"}
Commands == {"gcc", "clang"}
Descriptions == {"", "compile"}
BuildIDs == {"b1", "b2"}
Pools == {"", "default"}
Paths == {"a", "b", "c"}
Statuses == {"", "building"}

\* SetVariables of an empty map
EmptyVariables == "{}"

RuleRequests ==
    [Name : RuleNames, Command : Commands, Description : Descriptions,
     Variables : {EmptyVariables}]

OutputLists == {<<"a">>, <<"b">>, <<"c">>}

\* inputs, implicit deps and order-only deps of a request
DependencyLists ==
    {<< <<>>, <<>>, <<>> >>,
     << <<"a">>, <<>>, <<>> >>,
     << <<"b">>, <<>>, <<>> >>,
     << <<"c">>, <<>>, <<>> >>,
     << <<>>, <<"c">>, <<>> >>,
     << <<>>, <<>>, <<"c">> >>,
     << <<"b">>, <<"b">>, <<"c">> >>}

\* a request without a pool fails at the build record, whatever its file
\* lists are, so one such request for each build id is kept; one request
\* comes without a rule
BuildRequests ==
    {req \in {[build_id |-> id, rule |-> r, pool |-> p, outputs |-> o,
               inputs |-> d[1], implicit_deps |-> d[2], order_deps |-> d[3]] :
                 id \in BuildIDs, r \in RuleNames \cup {""}, p \in Pools, o \in OutputLists,
                 d \in DependencyLists} :
        /\ req.pool = ""
              => (req.outputs = <<"a">> /\ req.inputs = <<"b">> /\ req.implicit_deps = <<>>
                  /\ req.rule # "")
        /\ req.rule = ""
              => (req.build_id = "b1" /\ req.outputs = <<"a">> /\ req.inputs = <<"b">>
                  /\ req.implicit_deps = <<>>)}

\* createBuildHandler: the build record made from the request
RequestBuild(req) ==
    [BuildID |-> req.build_id, Rule |-> RuleIRI(req.rule),
     Variables |-> EmptyVariables, Pool |-> req.pool]

CreateBuildResult(q, req) ==
    AddBuildResult(q, RequestBuild(req), req.inputs, req.outputs,
                   req.implicit_deps, req.order_deps)

\* ninja files sent to the load endpoint: the empty file, a chain
\* c -> a -> b whose last build has an order-only dependency, two builds
\* that depend on each other, a rule without a description, and a
\* complete rule followed by a rule without a command
Contents ==
    {"",
     "rule cc\n  command = gcc\n  description = compile\nbuild a: cc c\nbuild b: cc a || c\n",
     "build a: cc b\nbuild b: cc a\n",
     "rule cc\n  command = gcc\nbuild c: cc\n",
     "rule cc\n  command = gcc\n  description = compile\nrule ld\n"}

\* the file system os.ReadFile sees: one readable ninja file, any other
\* path cannot be read
NinjaFilePath == "build.ninja"
NinjaFileContent ==
    "rule cc\n  command = gcc\n  description = compile\nbuild a: cc c\nbuild b: cc a || c\n"
FilePaths == {"", NinjaFilePath, "missing.ninja"}

ReadFile(path) ==
    IF path = NinjaFilePath THEN [err |-> FALSE, content |-> NinjaFileContent]
    ELSE [err |-> TRUE, content |-> ""]

\* load requests: file_path is "" when the field is absent, content is Nil
\* when the field is absent; a request that names a file comes without
\* content or with the content of two builds that depend on each other
LoadRequests ==
    {req \in [file_path : FilePaths,
              content : {Nil} \cup {[nil |-> FALSE, text |-> c] : c \in Contents}] :
        (req.file_path # "" /\ ~req.content.nil)
            => req.content.text = "build a: cc b\nbuild b: cc a\n"}

-----------------------------------------------------------------------------
(* The HTTP handlers: the store after the request and the status code of   *)
(* the response.                                                           *)

createBuildHandler(q, req) ==
    LET r == CreateBuildResult(q, req)
    IN  [quads |-> r.quads, code |-> IF r.err THEN 500 ELSE 201]

updateTargetStatusHandler(q, path, status, t) ==
    IF status = "" THEN [quads |-> q, code |-> 400]
    ELSE IF ~Loadable(q, TargetIRI(path), "NinjaTarget", TargetFieldNames)
    THEN [quads |-> q, code |-> 404]
    ELSE [quads |-> UpdateTargetStatusResult(q, path, status, t), code |-> 200]

loadNinjaFileHandler(q, req) ==
    IF req.file_path = "" /\ req.content.nil THEN [quads |-> q, code |-> 400]
    ELSE LET file == ReadFile(req.file_path)
         IN  IF req.file_path # "" /\ file.err THEN [quads |-> q, code |-> 400]
             ELSE LET content == IF req.file_path # "" THEN file.content
                                 ELSE req.content.text
                      r == ParseAndLoad(q, content)
                  IN  [quads |-> r.quads, code |-> IF r.err THEN 500 ELSE 200]

\* getRuleHandler, getBuildHandler, getTargetHandler: the status code
getRuleHandler(q, name) == IF GetRule(q, name) = {} THEN 404 ELSE 200
getBuildHandler(q, id) == IF GetBuild(q, id) = {} THEN 404 ELSE 200
getTargetHandler(q, path) == IF GetTarget(q, path) = {} THEN 404 ELSE 200

-----------------------------------------------------------------------------
(* The RPC service: the store after the call and the status code the       *)
(* client receives.  The methods return errors made by fmt.Errorf, which   *)
(* carry no status of their own, so every failed call ends with the code   *)
(* Unknown.  A string field that is absent from the message reads as "".   *)

ServiceBuild(req) ==
    [BuildID |-> req.build_id, Rule |-> IF req.rule # "" THEN RuleIRI(req.rule) ELSE IRI(""),
     Variables |-> EmptyVariables, Pool |-> req.pool]

ServiceCreateBuild(q, req) ==
    LET r == AddBuildResult(q, ServiceBuild(req), req.inputs, req.outputs,
                            req.implicit_deps, req.order_deps)
    IN  [quads |-> r.quads, code |-> IF r.err THEN "Unknown" ELSE "OK"]

ServiceUpdateTargetStatus(q, path, status, t) ==
    IF status = "" THEN [quads |-> q, code |-> "Unknown"]
    ELSE IF ~Loadable(q, TargetIRI(path), "NinjaTarget", TargetFieldNames)
    THEN [quads |-> q, code |-> "Unknown"]
    ELSE [quads |-> UpdateTargetStatusResult(q, path, status, t), code |-> "OK"]

ServiceLoadNinjaFile(q, req) ==
    LET reqContent == IF req.content.nil THEN "" ELSE req.content.text
    IN  IF req.file_path = "" /\ reqContent = "" THEN [quads |-> q, code |-> "Unknown"]
        ELSE LET file == ReadFile(req.file_path)
             IN  IF req.file_path # "" /\ file.err THEN [quads |-> q, code |-> "Unknown"]
                 ELSE LET content == IF req.file_path # "" THEN file.content ELSE reqContent
                          r == ParseAndLoad(q, content)
                      IN  [quads |-> r.quads, code |-> IF r.err THEN "Unknown" ELSE "OK"]

ServiceGetRule(q, name) == IF GetRule(q, name) = {} THEN "Unknown" ELSE "OK"
ServiceGetBuild(q, id) == IF GetBuild(q, id) = {} THEN "Unknown" ELSE "OK"
ServiceGetTarget(q, path) == IF GetTarget(q, path) = {} THEN "Unknown" ELSE "OK"

-----------------------------------------------------------------------------
(* The server: one action per write request *)

Init ==
    /\ quads = {}
    /\ now = 0
    /\ steps = 0
    /\ calls = NoCalls
    /\ srv = NoServer
    /\ parser = NoParser

CreateRule(req) ==
    /\ steps < MaxSteps
    /\ quads' = AddRuleResult(quads, req).quads
    /\ steps' = steps + 1
    /\ UNCHANGED <<now, calls, srv, parser>>

CreateBuild(req) ==
    /\ steps < MaxSteps
    /\ quads' = createBuildHandler(quads, req).quads
    /\ steps' = steps + 1
    /\ UNCHANGED <<now, calls, srv, parser>>

RPCCreateBuild(req) ==
    /\ steps < MaxSteps
    /\ quads' = ServiceCreateBuild(quads, req).quads
    /\ steps' = steps + 1
    /\ UNCHANGED <<now, calls, srv, parser>>

\* updateTargetStatusHandler: an empty status and an unknown target are
\* rejected before the store is touched
UpdateTargetStatus(path, status) ==
    /\ steps < MaxSteps
    /\ steps' = steps + 1
    /\ LET r == updateTargetStatusHandler(quads, path, status, now + 1)
       IN  /\ quads' = r.quads
           /\ now' = IF r.code = 200 THEN now + 1 ELSE now
    /\ UNCHANGED <<calls, srv, parser>>

RPCUpdateTargetStatus(path, status) ==
    /\ steps < MaxSteps
    /\ steps' = steps + 1
    /\ LET r == ServiceUpdateTargetStatus(quads, path, status, now + 1)
       IN  /\ quads' = r.quads
           /\ now' = IF r.code = "OK" THEN now + 1 ELSE now
    /\ UNCHANGED <<calls, srv, parser>>

LoadNinjaFile(req) ==
    /\ steps < MaxSteps
    /\ quads' = loadNinjaFileHandler(quads, req).quads
    /\ steps' = steps + 1
    /\ UNCHANGED <<now, calls, srv, parser>>

RPCLoadNinjaFile(req) ==
    /\ steps < MaxSteps
    /\ quads' = ServiceLoadNinjaFile(quads, req).quads
    /\ steps' = steps + 1
    /\ UNCHANGED <<now, calls, srv, parser>>

Next ==
    \/ \E req \in RuleRequests : CreateRule(req)
    \/ \E req \in BuildRequests : CreateBuild(req)
    \/ \E req \in BuildRequests : RPCCreateBuild(req)
    \/ \E req \in LoadRequests : LoadNinjaFile(req)
    \/ \E req \in LoadRequests : RPCLoadNinjaFile(req)
    \/ \E path \in Paths, status \in Statuses : UpdateTargetStatus(path, status)
    \/ \E path \in Paths, status \in Statuses : RPCUpdateTargetStatus(path, status)

Spec == Init /\ [][Next]_vars

-----------------------------------------------------------------------------
(* Concurrent AddBuild calls.  The handlers run in one goroutine per       *)
(* request and NinjaStore holds no lock.  graph.NewWriter does not buffer: *)
(* every quad schema.WriteAsQuads emits is one write to the store, and the *)
(* relationship quads go in one WriteQuads call at the end.  A call is     *)
(* followed write by write; what a query running next to it sees is the    *)
(* store in any of the states between two writes.                          *)

Procs == {1, 2}

\* Bound on the number of AddBuild calls started in one behaviour.
MaxCalls == 2

\* the writes of one record, in order: the type quad, then the fields up
\* to the first one that holds the zero value
RECURSIVE FieldWrites(_, _, _)
FieldWrites(id, fields, i) ==
    IF i > Len(fields) \/ IsZero(fields[i][2]) THEN <<>>
    ELSE <<{Quad(id, IRI(fields[i][1]), fields[i][2])}>> \o FieldWrites(id, fields, i + 1)

RecordWrites(id, typ, fields) ==
    <<{Quad(id, RdfType, IRI(typ))}>> \o FieldWrites(id, fields, 1)

RECURSIVE TargetWrites(_, _, _)
TargetWrites(buildID, outputs, i) ==
    IF i > Len(outputs) THEN <<>>
    ELSE LET target == NewTarget(outputs[i], buildID)
         IN  RecordWrites(target.ID, "NinjaTarget", NinjaTargetFields(target))
             \o TargetWrites(buildID, outputs, i + 1)

RECURSIVE FileWrites(_, _)
FileWrites(paths, i) ==
    IF i > Len(paths) THEN <<>>
    ELSE LET file == NewFile(paths[i])
         IN  RecordWrites(file.ID, "NinjaFile", NinjaFileFields(file))
             \o FileWrites(paths, i + 1)

\* the batch of relationship quads handed to WriteQuads
RelationshipQuads(buildID, inputs, outputs, implicitDeps, orderDeps) ==
    WriteOutputs(buildID, outputs, 1).pending
    \cup WriteDependencies(buildID, PredicateHasInput, inputs, outputs, 1).pending
    \cup WriteDependencies(buildID, PredicateHasImplicitDep, implicitDeps, outputs, 1).pending
    \cup OrderDepQuads(buildID, orderDeps)

\* the writes of an AddBuild call that meets no zero field, in order
AddBuildWrites(build, inputs, outputs, implicitDeps, orderDeps) ==
    LET buildID == BuildIRI(build.BuildID)
        batch == RelationshipQuads(buildID, inputs, outputs, implicitDeps, orderDeps)
    IN  RecordWrites(buildID, "NinjaBuild", NinjaBuildFields(build))
        \o TargetWrites(buildID, outputs, 1)
        \o FileWrites(inputs, 1)
        \o FileWrites(implicitDeps, 1)
        \o (IF batch = {} THEN <<>> ELSE <<batch>>)

\* create-build requests that AddBuild completes without an error
ConcurrentRequests ==
    {req \in BuildRequests :
        /\ req.rule = "cc" /\ req.pool = "default"
        /\ req.outputs \in {<<"a">>, <<"b">>}
        /\ req.inputs = <<"b">>}

IdleCall == [active |-> FALSE]

ConcurrentInit ==
    /\ quads = {}
    /\ now = 0
    /\ steps = 0
    /\ calls = [p \in Procs |-> IdleCall]
    /\ srv = NoServer
    /\ parser = NoParser

\* createBuildHandler enters AddBuild
AddBuildBegin(p, req) ==
    /\ steps < MaxCalls
    /\ ~calls[p].active
    /\ calls' = [calls EXCEPT ![p] =
                    [active |-> TRUE, req |-> req, done |-> {},
                     todo |-> AddBuildWrites(RequestBuild(req), req.inputs, req.outputs,
                                             req.implicit_deps, req.order_deps)]]
    /\ steps' = steps + 1
    /\ UNCHANGED <<quads, now, srv, parser>>

\* the next write of the call reaches the store
AddBuildWrite(p) ==
    /\ calls[p].active
    /\ calls[p].todo # <<>>
    /\ quads' = quads \cup Head(calls[p].todo)
    /\ calls' = [calls EXCEPT ![p].todo = Tail(@), ![p].done = @ \cup Head(calls[p].todo)]
    /\ UNCHANGED <<now, steps, srv, parser>>

\* AddBuild returns nil
AddBuildReturn(p) ==
    /\ calls[p].active
    /\ calls[p].todo = <<>>
    /\ calls' = [calls EXCEPT ![p] = IdleCall]
    /\ UNCHANGED <<quads, now, steps, srv, parser>>

ConcurrentNext ==
    \/ \E p \in Procs, req \in ConcurrentRequests : AddBuildBegin(p, req)
    \/ \E p \in Procs : AddBuildWrite(p)
    \/ \E p \in Procs : AddBuildReturn(p)

ConcurrentSpec == ConcurrentInit /\ [][ConcurrentNext]_vars

-----------------------------------------------------------------------------
(* A query followed iteration by iteration.  GetAllTargets runs over all   *)
(* quads with it.Next(ncs.ctx) and then loads every target it found with   *)
(* LoadTo(ncs.ctx, ..).  ncs.ctx is the context.Background() taken by      *)
(* NewNinjaStore; the handlers do not hand the context of the request to   *)
(* the store.  The client may cancel the request at any point.             *)

\* NinjaStore.ctx
StoreContext == "Background"

\* ctx.Done() is closed
Done(ctx, call) == ctx = "Request" /\ call.cancelled

QueryOps == {"GetAllTargets", "GetBuildOrder"}

\* the stores the queries run on
QueryStores == {CreateBuildResult({}, req).quads : req \in ConcurrentRequests}

TypeQuads(q) == {Quad(t, RdfType, IRI("NinjaTarget")) : t \in TargetIRIs(q)}

QueryInit ==
    /\ quads \in QueryStores
    /\ now = 0
    /\ steps = 0
    /\ calls = [p \in Procs |-> IdleCall]
    /\ srv = NoServer
    /\ parser = NoParser

\* the handler calls the store
QueryBegin(p, op) ==
    /\ steps < MaxCalls
    /\ ~calls[p].active
    /\ calls' = [calls EXCEPT ![p] =
                    [active |-> TRUE, op |-> op, phase |-> "scan", others |-> 0,
                     targetIRIs |-> {}, loaded |-> {}, cancelled |-> FALSE,
                     targets |-> {}]]
    /\ steps' = steps + 1
    /\ UNCHANGED <<quads, now, srv, parser>>

\* it.Next(ncs.ctx) yields one more quad: a type quad of a target or
\* another quad
ScanQuad(p) ==
    /\ calls[p].active /\ calls[p].phase = "scan"
    /\ ~Done(StoreContext, calls[p])
    /\ \/ \E t \in TargetIRIs(quads) \ calls[p].targetIRIs :
            calls' = [calls EXCEPT ![p].targetIRIs = @ \cup {t}]
       \/ /\ calls[p].others < Cardinality(quads \ TypeQuads(quads))
          /\ calls' = [calls EXCEPT ![p].others = @ + 1]
    /\ UNCHANGED <<quads, now, steps, srv, parser>>

\* it.Next(ncs.ctx) is false: every quad was seen
ScanEnd(p) ==
    /\ calls[p].active /\ calls[p].phase = "scan"
    /\ calls[p].targetIRIs = TargetIRIs(quads)
    /\ calls[p].others = Cardinality(quads \ TypeQuads(quads))
    /\ calls' = [calls EXCEPT ![p].phase = "load"]
    /\ UNCHANGED <<quads, now, steps, srv, parser>>

\* one round of the loop over targetIRIs
LoadTarget(p) ==
    /\ calls[p].active /\ calls[p].phase = "load"
    /\ \E t \in calls[p].targetIRIs \ calls[p].loaded :
          calls' = [calls EXCEPT
                       ![p].loaded = @ \cup {t},
                       ![p].targets = IF Loadable(quads, t, "NinjaTarget", TargetFieldNames)
                                      THEN @ \cup {t} ELSE @]
    /\ UNCHANGED <<quads, now, steps, srv, parser>>

\* the loop is over: the targets go back to the handler, which answers
QueryReturn(p) ==
    /\ calls[p].active /\ calls[p].phase = "load"
    /\ calls[p].loaded = calls[p].targetIRIs
    /\ calls' = [calls EXCEPT ![p].phase = "returned"]
    /\ UNCHANGED <<quads, now, steps, srv, parser>>

\* the client cancels the request while the handler is running
Cancel(p) ==
    /\ calls[p].active /\ calls[p].phase # "returned"
    /\ ~calls[p].cancelled
    /\ calls' = [calls EXCEPT ![p].cancelled = TRUE]
    /\ UNCHANGED <<quads, now, steps, srv, parser>>

QueryNext ==
    \/ \E p \in Procs, op \in QueryOps : QueryBegin(p, op)
    \/ \E p \in Procs : ScanQuad(p)
    \/ \E p \in Procs : ScanEnd(p)
    \/ \E p \in Procs : LoadTarget(p)
    \/ \E p \in Procs : QueryReturn(p)
    \/ \E p \in Procs : Cancel(p)

QuerySpec == QueryInit /\ [][QueryNext]_vars

-----------------------------------------------------------------------------
(* Concurrent UpdateTargetStatus calls.  A call opens an iterator over all *)
(* quads, collects the status quads of the target it yields as removals of *)
(* one transaction, adds the new status and a last_modified quad to it and *)
(* applies it.  The iterator runs over the quads the store held when it    *)
(* was opened and reads them as the loop advances: a quad removed in the   *)
(* meantime is not yielded, and neither is a quad added in the meantime.   *)
(* The transaction is applied whole or not at all, and the store refuses a *)
(* transaction that removes a quad it does not hold.                       *)

UpdateStatuses == {"building", "failed"}

\* graph.Transaction: adding a quad that is scheduled for removal drops the
\* removal instead
TransactionDeltas(old, new) == [remove |-> old \ new, add |-> new \ old]

\* ApplyTransaction: removing a quad that is not in the store is an error
\* and nothing of the transaction is applied
ApplyTransaction(q, tx) ==
    IF tx.remove \subseteq q
    THEN [quads |-> (q \ tx.remove) \cup tx.add, err |-> FALSE]
    ELSE [quads |-> q, err |-> TRUE]

StatusInit ==
    /\ quads \in QueryStores
    /\ now = 0
    /\ steps = 0
    /\ calls = [p \in Procs |-> IdleCall]
    /\ srv = NoServer
    /\ parser = NoParser

StatusQuads(q, path) == {u \in q : u[1] = TargetIRI(path) /\ u[2] = IRI("status")}

\* the handler found the target and calls UpdateTargetStatus, which opens
\* the iterator
StatusBegin(p, path, status) ==
    /\ steps < MaxCalls
    /\ ~calls[p].active
    /\ Loadable(quads, TargetIRI(path), "NinjaTarget", TargetFieldNames)
    /\ calls' = [calls EXCEPT ![p] =
                    [active |-> TRUE, path |-> path, status |-> status, phase |-> "scan",
                     pending |-> StatusQuads(quads, path), old |-> {}, err |-> FALSE]]
    /\ steps' = steps + 1
    /\ UNCHANGED <<quads, now, srv, parser>>

\* the loop reaches a status quad of the target: it goes to the
\* transaction as a removal if the store still holds it
StatusScan(p) ==
    /\ calls[p].active /\ calls[p].phase = "scan"
    /\ \E u \in calls[p].pending :
          calls' = [calls EXCEPT ![p].pending = @ \ {u},
                                 ![p].old = IF u \in quads THEN @ \cup {u} ELSE @]
    /\ UNCHANGED <<quads, now, steps, srv, parser>>

\* it.Next is false
StatusScanEnd(p) ==
    /\ calls[p].active /\ calls[p].phase = "scan"
    /\ calls[p].pending = {}
    /\ calls' = [calls EXCEPT ![p].phase = "apply"]
    /\ UNCHANGED <<quads, now, steps, srv, parser>>

\* the two quads are added to the transaction and it is applied; the call
\* returns the error of the store, if any
StatusApply(p) ==
    /\ calls[p].active /\ calls[p].phase = "apply"
    /\ LET targetIRI == TargetIRI(calls[p].path)
           r == ApplyTransaction(quads,
                    TransactionDeltas(calls[p].old,
                        {Quad(targetIRI, IRI("status"), String(calls[p].status)),
                         Quad(targetIRI, IRI("last_modified"), Time(now + 1))}))
       IN  /\ quads' = r.quads
           /\ calls' = [calls EXCEPT ![p].phase = "returned", ![p].err = r.err]
    /\ now' = now + 1
    /\ UNCHANGED <<steps, srv, parser>>

StatusNext ==
    \/ \E p \in Procs, path \in Paths, status \in UpdateStatuses : StatusBegin(p, path, status)
    \/ \E p \in Procs : StatusScan(p)
    \/ \E p \in Procs : StatusScanEnd(p)
    \/ \E p \in Procs : StatusApply(p)

StatusSpec == StatusInit /\ [][StatusNext]_vars

-----------------------------------------------------------------------------
(* The server process: StartHTTPServer and StartGRPCServer, from the call  *)
(* by runServe to the return, with the requests in flight.  runServe       *)
(* passes context.Background(), so ctx.Done() never fires and Shutdown     *)
(* waits for the requests without a deadline.  The process exits with      *)
(* status 1 when the start function returns an error and with 0 when it    *)
(* returns nil; requests still in flight end with the process.             *)
(*                                                                         *)
(* srv.pc is the position of the start function, srv.serve the state of   *)
(* the goroutine that runs ListenAndServe or Serve, srv.store the store    *)
(* handle, srv.exit the exit status, srv.stale whether a request finished  *)
(* on a closed store.                                                      *)

Kinds == {"http", "grpc"}

\* Bounds on the requests in flight at once and accepted in one behaviour.
MaxInflight == 3
MaxRequests == 5

ServerInit ==
    /\ quads = {}
    /\ now = 0
    /\ steps = 0
    /\ calls = NoCalls
    /\ parser = NoParser
    /\ srv \in [kind : Kinds, bindable : BOOLEAN, pc : {"start"}, serve : {"idle"},
                store : {"unopened"}, bindFailed : {FALSE}, inflight : {0},
                accepted : {0}, stale : {FALSE}, exit : {"running"}]

\* StartHTTPServer: NewNinjaStore, the router, signal.Notify and the
\* goroutine that will call ListenAndServe
HTTPOpenStore ==
    /\ srv.kind = "http" /\ srv.pc = "start"
    /\ srv' = [srv EXCEPT !.store = "open", !.serve = "pending", !.pc = "select"]
    /\ UNCHANGED <<quads, now, steps, calls, parser>>

\* the goroutine: ListenAndServe binds the address, fails to bind it, or
\* finds the server already shut down
HTTPListenAndServe ==
    /\ srv.kind = "http" /\ srv.serve = "pending" /\ srv.exit = "running"
    /\ srv' = IF srv.pc # "select" THEN [srv EXCEPT !.serve = "closed"]
              ELSE IF srv.bindable THEN [srv EXCEPT !.serve = "listening"]
              ELSE [srv EXCEPT !.serve = "failed", !.bindFailed = TRUE]
    /\ UNCHANGED <<quads, now, steps, calls, parser>>

\* StartGRPCServer: net.Listen; an address that cannot be bound returns
\* the error
GRPCListen ==
    /\ srv.kind = "grpc" /\ srv.pc = "start"
    /\ srv' = IF srv.bindable THEN [srv EXCEPT !.serve = "bound", !.pc = "open"]
              ELSE [srv EXCEPT !.bindFailed = TRUE, !.pc = "done", !.exit = "nonzero"]
    /\ UNCHANGED <<quads, now, steps, calls, parser>>

\* NewNinjaStore, the registration of the services and the goroutine that
\* runs Serve on the listener
GRPCOpenStore ==
    /\ srv.kind = "grpc" /\ srv.pc = "open"
    /\ srv' = [srv EXCEPT !.store = "open", !.serve = "listening", !.pc = "select"]
    /\ UNCHANGED <<quads, now, steps, calls, parser>>

\* a request is accepted and its handler starts
Accept ==
    /\ srv.serve = "listening" /\ srv.exit = "running"
    /\ srv.inflight < MaxInflight /\ srv.accepted < MaxRequests
    /\ srv' = [srv EXCEPT !.inflight = @ + 1, !.accepted = @ + 1]
    /\ UNCHANGED <<quads, now, steps, calls, parser>>

\* a handler reads or writes the store and answers
Finish ==
    /\ srv.inflight > 0 /\ srv.exit = "running"
    /\ srv' = [srv EXCEPT !.inflight = @ - 1, !.stale = @ \/ srv.store = "closed"]
    /\ UNCHANGED <<quads, now, steps, calls, parser>>

\* case <-quit: SIGINT or SIGTERM; Shutdown and GracefulStop first close
\* the listener
Signal ==
    /\ srv.pc = "select"
    /\ srv' = [srv EXCEPT !.pc = "stopping",
                          !.serve = IF @ = "listening" THEN "closed" ELSE @]
    /\ UNCHANGED <<quads, now, steps, calls, parser>>

\* case err := <-serverErr.  StartHTTPServer prints the error and goes on
\* to Shutdown; StartGRPCServer returns the error of Serve at once
ServerError ==
    /\ srv.pc = "select"
    /\ \/ /\ srv.kind = "http" /\ srv.serve = "failed"
          /\ srv' = [srv EXCEPT !.pc = "stopping"]
       \/ /\ srv.kind = "grpc" /\ srv.serve = "listening"
          /\ srv' = [srv EXCEPT !.serve = "failed", !.pc = "done", !.exit = "nonzero"]
    /\ UNCHANGED <<quads, now, steps, calls, parser>>

\* Shutdown(ctx) returns once no request is in flight and StartHTTPServer
\* returns nil
HTTPShutdown ==
    /\ srv.kind = "http" /\ srv.pc = "stopping" /\ srv.inflight = 0
    /\ srv' = [srv EXCEPT !.pc = "done", !.exit = "zero"]
    /\ UNCHANGED <<quads, now, steps, calls, parser>>

\* GracefulStop returns once no request is in flight
GRPCGracefulStop ==
    /\ srv.kind = "grpc" /\ srv.pc = "stopping" /\ srv.inflight = 0
    /\ srv' = [srv EXCEPT !.pc = "close"]
    /\ UNCHANGED <<quads, now, steps, calls, parser>>

\* ninjaStore.Close() and return nil
GRPCCloseStore ==
    /\ srv.kind = "grpc" /\ srv.pc = "close"
    /\ srv' = [srv EXCEPT !.store = "closed", !.pc = "done", !.exit = "zero"]
    /\ UNCHANGED <<quads, now, steps, calls, parser>>

ServerNext ==
    \/ HTTPOpenStore
    \/ HTTPListenAndServe
    \/ GRPCListen
    \/ GRPCOpenStore
    \/ Accept
    \/ Finish
    \/ Signal
    \/ ServerError
    \/ HTTPShutdown
    \/ GRPCGracefulStop
    \/ GRPCCloseStore

ServerSpec == ServerInit /\ [][ServerNext]_vars

-----------------------------------------------------------------------------
(* ParseAndLoad line by line: the store and the two contexts after every   *)
(* iteration of the loop, on a store that starts empty.                    *)

\* Number of lines of a content.
MaxLines == 3

StatementLines ==
    {"rule cc", "  command = gcc", "  description = compile", "build a: cc b",
     "pool link", "rule ld", "build b: cc a", "build a: cc a", "  depfile = a.d $"}

\* build statements by their sections: outputs, rule, inputs, implicit
\* deps and order-only deps, every section but the outputs empty or not
Decompositions ==
    [O : {<<"o">>, <<"o", "p">>}, R : {"cc"}, I : {<<>>, <<"i">>, <<"i", "j">>},
     M : {<<>>, <<"m">>, <<"m", "n">>}, D : {<<>>, <<"d">>, <<"d", "e">>}]

Section(sep, paths) == IF paths = <<>> THEN "" ELSE sep \o Join(paths, " ")

\* "build outputs: rule inputs | implicit_deps || order_deps"
BuildLineText(d) ==
    "build " \o Join(d.O, " ") \o ": " \o d.R
        \o Section(" ", d.I) \o Section(" | ", d.M) \o Section(" || ", d.D)

ParserContents ==
    {Join(l, "\n") : l \in [1..MaxLines -> StatementLines]}
        \cup {BuildLineText(d) : d \in Decompositions}
        \cup {Join(<<"rule cc", "  command = gcc", BuildLineText(d)>>, "\n") :
                 d \in Decompositions}

ParserInit ==
    /\ quads = {}
    /\ now = 0
    /\ steps = 0
    /\ calls = NoCalls
    /\ srv = NoServer
    /\ parser \in {[open |-> TRUE, lines |-> Split(content, "\n"), i |-> 1,
                    currentRule |-> Nil, currentBuild |-> Nil,
                    status |-> "parsing", msg |-> ""] : content \in ParserContents}

ParserState == [quads |-> quads, currentRule |-> parser.currentRule,
                currentBuild |-> parser.currentBuild]

\* one iteration of the loop
ParserLine ==
    /\ parser.open /\ parser.status = "parsing"
    /\ parser.i <= Len(parser.lines)
    /\ LET s == ParseLine(parser.lines, parser.i, ParserState)
       IN  /\ quads' = s.st.quads
           /\ parser' = IF s.err
                        THEN [parser EXCEPT !.status = "failed", !.msg = s.msg]
                        ELSE [parser EXCEPT !.i = s.next,
                                            !.currentRule = s.st.currentRule,
                                            !.currentBuild = s.st.currentBuild]
    /\ UNCHANGED <<now, steps, calls, srv>>

\* the end of the input: what is still open is saved
ParserFlush ==
    /\ parser.open /\ parser.status = "parsing"
    /\ parser.i > Len(parser.lines)
    /\ LET r == SaveFinal(ParserState, SaveRule(quads, parser.currentRule, TRUE))
       IN  /\ quads' = r.quads
           /\ parser' = [parser EXCEPT !.status = IF r.err THEN "failed" ELSE "done",
                                       !.msg = r.msg]
    /\ UNCHANGED <<now, steps, calls, srv>>

ParserNext ==
    \/ ParserLine
    \/ ParserFlush

ParserSpec == ParserInit /\ [][ParserNext]_vars

-----------------------------------------------------------------------------
(* Vocabulary of the properties *)

HasOutput(q, b, t) == Quad(b, String(PredicateHasOutput), t) \in q
HasInput(q, b, f) == Quad(b, String(PredicateHasInput), f) \in q
HasImplicitDep(q, b, f) == Quad(b, String(PredicateHasImplicitDep), f) \in q
HasOrderDep(q, b, f) == Quad(b, String(PredicateHasOrderDep), f) \in q
DependsOn(q, t, f) == Quad(t, String(PredicateDependsOn), f) \in q

BuildIRIs(q) == Subjects(q, RdfType, IRI("NinjaBuild"))
AllFileIRIs == {FileIRI(p) : p \in Paths}

Range(s) == {s[i] : i \in 1..Len(s)}

TargetPaths(q) == {FieldText(q, t, "path") : t \in TargetIRIs(q)}

\* the dependencies of target T that are targets, as the query engine
\* reports them on the snapshot
TargetDependencies(snap, T) ==
    Range(GetBuildDependencies(snap, T).deps) \cap TargetPaths(snap.quads)

\* the target-induced dependency graph of a snapshot: target |-> the
\* targets it depends on
DependencyGraph(snap) ==
    [T \in TargetPaths(snap.quads) |-> TargetDependencies(snap, T)]

RECURSIVE Reach(_, _)
Reach(d, S) ==
    LET next == S \cup UNION {d[x] : x \in S}
    IN  IF next = S THEN S ELSE Reach(d, next)

\* T lies on a cycle of the graph d
OnCycle(d, T) == T \in Reach(d, d[T])

HasCycle(d) == \E T \in DOMAIN d : OnCycle(d, T)

\* position of x in the sequence s (0 when absent)
IndexOf(s, x) == IF x \in Range(s) THEN CHOOSE i \in 1..Len(s) : s[i] = x ELSE 0

-----------------------------------------------------------------------------
(* Properties *)

\* C1: in every reachable store state get_build_order() succeeds if and
\* only if find_cycles() returns the empty list.
C1_OrderIffNoCycles ==
    \A snap \in Snapshots(quads) :
        LET found == FindCycles(snap)
        IN  \A zero \in Zeros(snap) :
                (~GetBuildOrder(snap, zero).err) <=> (~found.err /\ found.cycles = <<>>)

\* C2: whenever the target-induced dependency graph has a cycle, of any
\* length and between distinct targets too, find_cycles() returns a
\* non-empty list, whatever the enumeration order of the targets.
C2_CyclesFound ==
    \A snap \in Snapshots(quads) :
        HasCycle(DependencyGraph(snap))
            => (~FindCycles(snap).err /\ FindCycles(snap).cycles # <<>>)

\* C3: get_build_order() returns the empty sequence when there are no
\* targets; when it succeeds the sequence holds every target path exactly
\* once and every dependency of a target that is itself a target comes
\* before it; it fails exactly when not every target can be emitted, that
\* is when the target graph has a cycle.
C3_BuildOrder ==
    \A snap \in Snapshots(quads) :
        LET targets == TargetPaths(quads)
            d == DependencyGraph(snap)
            cyclic == HasCycle(d)
        IN  \A zero \in Zeros(snap) :
                LET r == GetBuildOrder(snap, zero)
                IN  /\ targets = {} => r = [err |-> FALSE, order |-> <<>>]
                    /\ r.err <=> cyclic
                    /\ ~r.err =>
                        /\ Len(r.order) = Cardinality(targets)
                        /\ Range(r.order) = targets
                        /\ \A T \in targets : \A D \in d[T] :
                               IndexOf(r.order, D) < IndexOf(r.order, T)

\* the chain c -> a -> b is ordered [a, b]
C3_Witness ==
    \E snap \in Snapshots(quads) : \E zero \in Zeros(snap) :
        /\ GetBuildOrder(snap, zero) = [err |-> FALSE, order |-> <<"a", "b">>]
        /\ "a" \in TargetDependencies(snap, "b")
        /\ "c" \in Range(GetBuildDependencies(snap, "a").deps)

\* C4: a depends_on edge from target T to file F exists if and only if
\* some build B has has_output(B, T) and has_input(B, F) or
\* has_implicit_dep(B, F).
C4_DependsOnDerived ==
    \A t \in TargetIRIs(quads) : \A f \in AllFileIRIs :
        DependsOn(quads, t, f)
            <=> \E b \in BuildIRIs(quads) :
                    /\ HasOutput(quads, b, t)
                    /\ HasInput(quads, b, f) \/ HasImplicitDep(quads, b, f)

\* C5: for every build B and every output T of B,
\* get_build_dependencies(T) returns exactly the files that are inputs or
\* implicit deps of B.
C5_BuildDependencies ==
    \A snap \in Snapshots(quads) :
        \A b \in BuildIRIs(quads) : \A t \in TargetIRIs(quads) :
            HasOutput(quads, b, t) =>
                LET r == GetBuildDependencies(snap, FieldText(quads, t, "path"))
                IN  /\ ~r.err
                    /\ {FileIRI(p) : p \in Range(r.deps)}
                         = {f \in AllFileIRIs :
                              HasInput(quads, b, f) \/ HasImplicitDep(quads, b, f)}

\* C6: target T is returned by get_reverse_dependencies(f) if and only if
\* the store holds the edge target:T depends_on file:f.
C6_ReverseDependencies ==
    \A f \in Paths : \A T \in Paths :
        T \in GetReverseDependencies(quads, f)
            <=> DependsOn(quads, TargetIRI(T), FileIRI(f))

C6_Witness ==
    /\ GetReverseDependencies(quads, "c") = {"a", "b"}
    /\ GetReverseDependencies(quads, "a") = {}

\* C7: a file a build lists only as an order-only dependency has no
\* depends_on edge from any output of that build and is not returned by
\* get_build_dependencies for those outputs.
C7_OrderOnly ==
    \A b \in BuildIRIs(quads) : \A f \in AllFileIRIs :
        (HasOrderDep(quads, b, f) /\ ~HasInput(quads, b, f) /\ ~HasImplicitDep(quads, b, f))
            => \A t \in TargetIRIs(quads) :
                   HasOutput(quads, b, t) =>
                       /\ ~DependsOn(quads, t, f)
                       /\ \A snap \in Snapshots(quads) :
                              f \notin {FileIRI(p) : p \in
                                  Range(GetBuildDependencies(snap, FieldText(quads, t, "path")).deps)}

\* C8: add_rule(r) twice, add_build(b, ...) twice and loading the same
\* ninja content twice leave the store, and with it the get_build_stats()
\* counts, as doing it once does, from every reachable store state.
C8_Idempotent ==
    /\ \A req \in RuleRequests :
           LET once == AddRuleResult(quads, req)
               twice == AddRuleResult(once.quads, req)
           IN  /\ twice.quads = once.quads
               /\ twice.err = once.err
               /\ GetBuildStats(twice.quads) = GetBuildStats(once.quads)
    /\ \A req \in BuildRequests :
           LET once == CreateBuildResult(quads, req)
               twice == CreateBuildResult(once.quads, req)
           IN  /\ twice.quads = once.quads
               /\ twice.err = once.err
               /\ GetBuildStats(twice.quads) = GetBuildStats(once.quads)
    /\ \A content \in Contents :
           LET once == ParseAndLoad(quads, content)
               twice == ParseAndLoad(once.quads, content)
           IN  /\ twice.quads = once.quads
               /\ twice.err = once.err
               /\ GetBuildStats(twice.quads) = GetBuildStats(once.quads)

\* a store that already holds what a rule request, a build request and a
\* ninja file with two builds write, and that other requests still change
C8_Witness ==
    /\ \E req \in RuleRequests : AddRuleResult(quads, req).quads = quads
    /\ \E req \in BuildRequests : CreateBuildResult(quads, req).quads = quads
    /\ \E req \in BuildRequests : CreateBuildResult(quads, req).quads # quads
    /\ \E content \in Contents :
           /\ ParseAndLoad({}, content).quads # {}
           /\ ~ParseAndLoad({}, content).err
           /\ ParseAndLoad(quads, content).quads = quads

\* C9: after add_rule with name n and command c, made when the store
\* already holds a rule n, the rule node rule:n has the single command
\* value c, whatever command it had before, and get_rule(n) returns c.
C9_RuleOverwritten ==
    [][\A req \in RuleRequests :
          (/\ GetRule(quads, req.Name) # {}
           /\ CreateRule(req)
           /\ ~AddRuleResult(quads, req).err) =>
              /\ Objects(quads', RuleIRI(req.Name), IRI("command")) = {String(req.Command)}
              /\ \A rule \in GetRule(quads', req.Name) : rule["command"] = String(req.Command)]_vars

\* C10: every target has exactly one build back-edge, and for every
\* has_output(B, T) edge the build attribute of T is B.
C10_OneBuildBackEdge ==
    \A t \in TargetIRIs(quads) :
        /\ Cardinality(Objects(quads, t, IRI("build"))) = 1
        /\ \A b \in BuildIRIs(quads) :
               HasOutput(quads, b, t) => Objects(quads, t, IRI("build")) = {b}

\* the status edges of target p
StatusOf(q, p) == Objects(q, TargetIRI(p), IRI("status"))

\* target p carries the status s that update_target_status gave it
StatusChangedTo(q, p, s) ==
    /\ StatusOf(q, p) = {String(s)}
    /\ Objects(q, TargetIRI(p), IRI("last_modified")) # {}
    /\ GetTarget(q, p) # {}

\* a write that declares p again: what it adds to the store q, if
\* anything, is status edges only
Redeclares(q, after, p) ==
    /\ Quad(TargetIRI(p), IRI("status"), String("clean")) \in after
    /\ \A u \in after \ q : u[2] = IRI("status")

\* C11: once update_target_status(p, s) has set the status of p, repeating
\* the add_build that declares p, or loading again the ninja text that
\* declares it, leaves get_target(p) reporting s.
C11_StatusSurvivesRedeclaration ==
    [][\A p \in Paths : \A s \in Statuses :
          StatusChangedTo(quads, p, s) =>
              /\ \A req \in BuildRequests :
                     (/\ CreateBuild(req)
                      /\ p \in Range(req.outputs)
                      /\ Redeclares(quads, CreateBuildResult(quads, req).quads, p))
                         => \A t \in GetTarget(quads', p) : t["status"] = String(s)
              /\ \A req \in LoadRequests :
                     (/\ LoadNinjaFile(req)
                      /\ Redeclares(quads, loadNinjaFileHandler(quads, req).quads, p))
                         => \A t \in GetTarget(quads', p) : t["status"] = String(s)]_vars

\* C12: after update_target_status(p, s) succeeds on an existing target p
\* the only status edge of p is s, get_target(p) reports status s, and a
\* last_modified edge of p has been added.
C12_StatusReplaced ==
    [][\A p \in Paths : \A s \in Statuses :
          (/\ UpdateTargetStatus(p, s) \/ RPCUpdateTargetStatus(p, s)
           /\ s # ""
           /\ GetTarget(quads, p) # {}) =>
              /\ StatusOf(quads', p) = {String(s)}
              /\ GetTarget(quads', p) # {}
              /\ \A t \in GetTarget(quads', p) : t["status"] = String(s)
              /\ Quad(TargetIRI(p), IRI("last_modified"), Time(now')) \in quads' \ quads]_vars

\* target a was updated to "building" and its "clean" edge is gone
C12_Witness ==
    /\ StatusChangedTo(quads, "a", "building")
    /\ Quad(TargetIRI("a"), IRI("status"), String("clean")) \notin quads
    /\ now > 0

\* C13: a rejected status update changes nothing: for a path without a
\* target the HTTP answer is 404 and the RPC answer NotFound, for an empty
\* status the HTTP answer is 400 and the RPC answer InvalidArgument, and in
\* both cases the store after the request is the store before it.
C13_RejectedUpdate ==
    \A p \in Paths : \A s \in Statuses :
        LET h == updateTargetStatusHandler(quads, p, s, now + 1)
            g == ServiceUpdateTargetStatus(quads, p, s, now + 1)
        IN  /\ s = "" =>
                  /\ h = [quads |-> quads, code |-> 400]
                  /\ g = [quads |-> quads, code |-> "InvalidArgument"]
            /\ (s # "" /\ GetTarget(quads, p) = {}) =>
                  /\ h = [quads |-> quads, code |-> 404]
                  /\ g = [quads |-> quads, code |-> "NotFound"]

\* C14: CreateBuild that names a rule the store does not hold is answered
\* with an error and leaves the store as it was: no build, target, file
\* or edge is created.
C14_UnknownRuleRejected ==
    \A req \in BuildRequests :
        GetRule(quads, req.rule) = {} =>
            /\ ServiceCreateBuild(quads, req).code # "OK"
            /\ ServiceCreateBuild(quads, req).quads = quads
            /\ createBuildHandler(quads, req).code # 201
            /\ createBuildHandler(quads, req).quads = quads

\* C15: LoadNinjaFile input selection.  With file_path and content both
\* given the file is loaded and the content is ignored; with neither given
\* the request fails with InvalidArgument (HTTP 400) and the store is
\* unchanged; with a file_path that cannot be read the request fails and
\* the store is unchanged.
C15_LoadInputSelection ==
    \A req \in LoadRequests :
        LET h == loadNinjaFileHandler(quads, req)
            g == ServiceLoadNinjaFile(quads, req)
            fileOnly == [req EXCEPT !.content = Nil]
            file == ReadFile(req.file_path)
        IN  /\ (req.file_path # "" /\ ~req.content.nil) =>
                  /\ h = loadNinjaFileHandler(quads, fileOnly)
                  /\ g = ServiceLoadNinjaFile(quads, fileOnly)
                  /\ ~file.err =>
                        /\ h.quads = ParseAndLoad(quads, file.content).quads
                        /\ g.quads = ParseAndLoad(quads, file.content).quads
            /\ (req.file_path = "" /\ req.content.nil) =>
                  /\ h = [quads |-> quads, code |-> 400]
                  /\ g = [quads |-> quads, code |-> "InvalidArgument"]
            /\ (req.file_path # "" /\ file.err) =>
                  /\ h.code # 200 /\ h.quads = quads
                  /\ g.code # "OK" /\ g.quads = quads

\* C16: loading the empty ninja file (content "", no file_path) succeeds
\* and adds nothing to the store, with the same outcome on the HTTP and on
\* the RPC surface.
C16_EmptyFileLoads ==
    LET req == [file_path |-> "", content |-> [nil |-> FALSE, text |-> ""]]
        h == loadNinjaFileHandler(quads, req)
        g == ServiceLoadNinjaFile(quads, req)
    IN  /\ h = [quads |-> quads, code |-> 200]
        /\ g = [quads |-> quads, code |-> "OK"]

\* ninja texts with a rule block ld that has no command or an empty one,
\* flushed by the next rule, by the next build, by a pool line, by a
\* variable line and by the end of the input
CommandlessTexts ==
    {"rule ld\nrule cc\n  command = gcc\n  description = compile\n",
     "rule ld\n  description = link\nbuild a: ld b\n",
     "rule ld\n  command =\nbuild a: ld b\n",
     "build a: cc b\nrule ld\npool link_pool\n  depth = 1\n",
     "rule ld\n  command = \nvariable x\n",
     "rule ld\n  description = link",
     "rule ld\n\tcommand =\n",
     "rule cc\n  command = gcc\n  description = compile\nrule ld\n",
     "rule cc\n  command = gcc\n  description = compile\nbuild a: cc b\nrule ld\n  depfile = x\n"}

\* the quads of the rule node rule:<name>
RuleQuads(q, name) == {u \in q : u[1] = RuleIRI(name)}

\* C17: a rule block without a command, or with an empty one, makes the
\* whole parse fail with the missing-command error when it is flushed,
\* whichever construct triggers the flush, and the rule is not written.
C17_MissingCommand ==
    \A text \in CommandlessTexts :
        LET r == ParseAndLoad(quads, text)
        IN  /\ r.err
            /\ r.msg = "rule ld is missing required command"
            /\ RuleQuads(r.quads, "ld") = {}
            /\ loadNinjaFileHandler(quads, [file_path |-> "",
                                            content |-> [nil |-> FALSE, text |-> text]]).code = 500

\* the store holds what a text wrote before its commandless rule was
\* flushed, and loading the text fails without a change
C17_Witness ==
    /\ quads # {}
    /\ \E text \in CommandlessTexts \cap Contents :
           /\ ParseAndLoad({}, text).quads # {}
           /\ ParseAndLoad(quads, text).err
           /\ ParseAndLoad(quads, text).quads = quads

\* the names of the rules in the store
StoredRuleNames(q) ==
    {FieldText(q, id, "name") : id \in Subjects(q, RdfType, IRI("NinjaRule"))}

\* ninja texts with the names of their rule blocks and the outputs of
\* their build statements: the empty text; a chain; two builds that depend
\* on each other; two rules and three builds, one with an implicit
\* dependency; comments, blank lines, a pool, a top-level variable, a rule
\* variable, a build with two outputs, build variables and an order-only
\* dependency; a top-level binding that ends in a doubled $, which ends
\* its line; a build whose variables are named rule, command and
\* description
LoadTexts ==
    {[text |-> "", rules |-> {}, outputs |-> {}],
     [text |-> "rule cc\n  command = gcc\n  description = compile\nbuild a: cc c\nbuild b: cc a || c\n",
      rules |-> {"cc"}, outputs |-> {"a", "b"}],
     [text |-> "build a: cc b\nbuild b: cc a\n", rules |-> {}, outputs |-> {"a", "b"}],
     [text |-> "rule cc\n  command = gcc -c\n  description = Compile\n\nrule link\n  command = gcc\n  description = Link\n\nbuild main.o: cc main.c | config.h\nbuild helper.o: cc helper.c\nbuild app: link main.o helper.o\n",
      rules |-> {"cc", "link"}, outputs |-> {"main.o", "helper.o", "app"}],
     [text |-> "# graph\npool highmem\n  depth = 1\n\nrule cc\n  command = gcc\n  description = compile\n  depfile = x.d\nvariable cflags = -O2\nbuild a b: cc c\n  cflags = -O3\n  pool = highmem\nbuild c: cc || g\n",
      rules |-> {"cc"}, outputs |-> {"a", "b", "c"}],
     [text |-> "rule cc\n  command = gcc\n  description = compile\ndollar = $$\nbuild a: cc b\n",
      rules |-> {"cc"}, outputs |-> {"a"}],
     [text |-> "rule cc\n  command = gcc\n  description = compile\nbuild a: cc b\n  rule = fast\n  command = x\n  description = y\n",
      rules |-> {"cc"}, outputs |-> {"a"}]}

\* C18: after a successful load of a text into the empty store the rule
\* names in the store are the names of the rule blocks of the text and the
\* target paths are the outputs of its build statements.
C18_LoadedEntities ==
    \A t \in LoadTexts :
        LET r == ParseAndLoad(quads, t.text)
        IN  (quads = {} /\ ~r.err) =>
                /\ StoredRuleNames(r.quads) = t.rules
                /\ TargetPaths(r.quads) = t.outputs

\* a node of the given type has been written for the identity
Written(q, id, typ) == Quad(id, RdfType, IRI(typ)) \in q

\* C19: get_rule(n), get_build(id) and get_target(p) return the record if
\* and only if an entity of that kind and identity has been written, and
\* answer NotFound (HTTP 404, RPC NotFound) otherwise; get_target(p) is
\* NotFound when p exists only as a file.
C19_GetByIdentity ==
    /\ \A n \in RuleNames \cup {"ld"} :
           LET written == Written(quads, RuleIRI(n), "NinjaRule")
           IN  /\ GetRule(quads, n) # {} <=> written
               /\ getRuleHandler(quads, n) = IF written THEN 200 ELSE 404
               /\ ServiceGetRule(quads, n) = IF written THEN "OK" ELSE "NotFound"
    /\ \A id \in BuildIDs \cup {"b3"} :
           LET written == Written(quads, BuildIRI(id), "NinjaBuild")
           IN  /\ GetBuild(quads, id) # {} <=> written
               /\ getBuildHandler(quads, id) = IF written THEN 200 ELSE 404
               /\ ServiceGetBuild(quads, id) = IF written THEN "OK" ELSE "NotFound"
    /\ \A p \in Paths \cup {"d"} :
           LET written == Written(quads, TargetIRI(p), "NinjaTarget")
           IN  /\ GetTarget(quads, p) # {} <=> written
               /\ getTargetHandler(quads, p) = IF written THEN 200 ELSE 404
               /\ ServiceGetTarget(quads, p) = IF written THEN "OK" ELSE "NotFound"
               /\ (Written(quads, FileIRI(p), "NinjaFile") /\ ~written) =>
                      /\ getTargetHandler(quads, p) = 404
                      /\ ServiceGetTarget(quads, p) = "NotFound"

\* C20: get_targets_by_rule(r) returns every target that is an output of
\* a build whose rule is rule:r, and returns each target at most once,
\* also when several builds that use r declare the same output.
C20_TargetsByRule ==
    \A r \in RuleNames \cup {"ld"} :
        LET result == GetTargetsByRule(quads, r)
        IN  \A t \in TargetIRIs(quads) :
                /\ (\E b \in BuildIRIs(quads) :
                        /\ Quad(b, IRI("rule"), RuleIRI(r)) \in quads
                        /\ HasOutput(quads, b, t))
                      => (t \in DOMAIN result /\ result[t] >= 1)
                /\ t \in DOMAIN result => result[t] <= 1

-----------------------------------------------------------------------------
(* Duplicates, atomicity and failure of the store operations *)

NoDuplicates(s) == \A i, j \in 1..Len(s) : i # j => s[i] # s[j]

\* C21: get_build_dependencies(T) returns each file at most once, also
\* when a path is both an explicit input and an implicit dependency of
\* the build of T.
C21_DependenciesOnce ==
    \A snap \in Snapshots(quads) : \A T \in Paths :
        NoDuplicates(GetBuildDependencies(snap, T).deps)

\* the call of process p has written some of its quads and not yet all
Partial(p) == calls[p].active /\ calls[p].done # {} /\ calls[p].todo # <<>>

\* C22: the writes of one add_build are observed atomically.  In every
\* state a query can run in, a call in progress has written none or all
\* of its quads, two calls are never both part-way through, and an output
\* target the call has written has its depends_on edges to the inputs and
\* implicit dependencies of the call.
C22_AtomicAddBuild ==
    /\ \A p \in Procs : ~Partial(p)
    /\ \A p \in Procs :
          calls[p].active =>
              \A k \in 1..Len(calls[p].req.outputs) :
                  LET T == calls[p].req.outputs[k]
                  IN  (/\ Quad(TargetIRI(T), RdfType, IRI("NinjaTarget")) \in calls[p].done
                       /\ GetTarget(quads, T) # {})
                          => \A f \in Range(calls[p].req.inputs)
                                       \cup Range(calls[p].req.implicit_deps) :
                                 DependsOn(quads, TargetIRI(T), FileIRI(f))

\* C23: add_build is all-or-nothing on failure.  A create-build request
\* whose AddBuild call returns an error leaves the store with exactly the
\* quads it held before the call.
C23_AllOrNothing ==
    \A req \in BuildRequests :
        LET r == CreateBuildResult(quads, req)
        IN  r.err => r.quads = quads

\* the nodes that carry the type marker of a file or of a target
TypedAs(q, typ) == Subjects(q, RdfType, IRI(typ))

\* C24: all store errors surface to the caller.  A result that reports no
\* error omits no record: get_all_targets returns one entry for every
\* node marked as a target, get_build_order orders every one of them, and
\* get_build_dependencies returns one file for every has_input and
\* has_implicit_dep edge of the build it read.
C24_ErrorsSurface ==
    \A snap \in Snapshots(quads) :
        /\ Len(GetAllTargets(snap)) = Cardinality(TypedAs(quads, "NinjaTarget"))
        /\ \A zero \in Zeros(snap) :
              LET r == GetBuildOrder(snap, zero)
              IN  ~r.err => Len(r.order) = Cardinality(TypedAs(quads, "NinjaTarget"))
        /\ \A T \in Paths :
              LET r == GetBuildDependencies(snap, T)
                  b == snap.pick[TargetIRI(T)]
              IN  ~r.err =>
                      Len(r.deps) = Cardinality(Objects(quads, b, String(PredicateHasInput)))
                                    + Cardinality(Objects(quads, b, String(PredicateHasImplicitDep)))

-----------------------------------------------------------------------------
(* Start and shutdown of the server *)

\* C25: shutdown ordering.  The store is closed only after the server has
\* stopped accepting and no request is in flight, no request finishes on a
\* closed store, and when the start function has returned the store it
\* opened is closed, for the HTTP and for the RPC server.
C25_ShutdownOrder ==
    /\ srv.store = "closed" => (srv.serve # "listening" /\ srv.inflight = 0)
    /\ ~srv.stale
    /\ (srv.exit # "running" /\ srv.store # "unopened") => srv.store = "closed"

\* C26: when the address cannot be bound the start function returns an
\* error and the process exits non-zero, for the HTTP and for the RPC
\* server.
C26_BindFailureReported ==
    (srv.exit # "running" /\ srv.bindFailed) => srv.exit = "nonzero"

-----------------------------------------------------------------------------
(* The parser *)

\* a rule whose command is continued on a second line, and a rule whose
\* command ends in a doubled $
ContinuationText == "rule opt\n  command = gcc $\n  -O2 $in\n  description = optimise\n"
DoubledText == "rule esc\n  command = echo $$\n  description = escape\n"

\* C27: line continuation.  A line ending in a single $ is joined with the
\* next one, the $ removed and the parts separated by exactly one space, so
\* the first text gives the command "gcc -O2 $in"; a line ending in $$
\* ends the logical line, so the second text gives the command "echo $$".
C27_LineContinuation ==
    /\ LET r == ParseAndLoad(quads, ContinuationText)
       IN  /\ ~r.err
           /\ Objects(r.quads, RuleIRI("opt"), IRI("command")) = {String("gcc -O2 $in")}
    /\ LET r == ParseAndLoad(quads, DoubledText)
       IN  /\ ~r.err
           /\ Objects(r.quads, RuleIRI("esc"), IRI("command")) = {String("echo $$")}

\* a build with a variable, a pool and another variable below it
PoolText == "build p: cc q\n  depfile = p.d\n  pool = link\n  restat = 1\n"

\* C28: a build statement followed by the indented line pool = P is
\* persisted with pool P, and the other indented key = value lines of the
\* build, before and after the pool line, are its variables.
C28_BuildPool ==
    LET r == ParseAndLoad(quads, PoolText)
    IN  /\ ~r.err
        /\ Objects(r.quads, BuildIRI("p"), IRI("pool")) = {String("link")}
        /\ \A v \in Objects(r.quads, BuildIRI("p"), IRI("variables")) :
              /\ GetVariables(v[2]).ok
              /\ GetVariables(v[2]).vars = [k \in {"depfile", "restat"} |->
                                               IF k = "depfile" THEN "p.d" ELSE "1"]

\* contents with a top-level line that is no construct of a ninja file
InvalidTexts ==
    {"invalid ninja syntax without proper structure",
     "rule cc\n  command = gcc\n  description = compile\nthis is not ninja\nbuild a: cc b\n"}

\* C29: loading content that is not Ninja syntax is answered with an
\* error, by the HTTP endpoint and by the RPC method.
C29_InvalidSyntaxRejected ==
    \A c \in InvalidTexts :
        LET req == [file_path |-> "", content |-> [nil |-> FALSE, text |-> c]]
        IN  /\ loadNinjaFileHandler(quads, req).code # 200
            /\ ServiceLoadNinjaFile(quads, req).code # "OK"

\* a top-level rule, build, pool or variable line
TopLevel(line) ==
    \/ HasPrefix(line, "rule ") \/ HasPrefix(line, "build ")
    \/ HasPrefix(line, "pool ") \/ HasPrefix(line, "variable ")

\* the builds declared on the lines before line k are in the store
BuildsPersisted(k) ==
    \A j \in 1..(k - 1) :
        HasPrefix(parser.lines[j], "build ")
            => Written(quads, BuildIRI(ParseBuildLine(parser.lines[j]).Outputs[1]), "NinjaBuild")

\* C30: the parser state machine.  A rule context and a build context are
\* never open together; once a top-level line has been processed the
\* builds declared before it are in the store; and when the parse fails
\* with a missing command every build declared before the failing line is
\* in the store.
C30_ParserStates ==
    /\ parser.currentRule.nil \/ parser.currentBuild.nil
    /\ (parser.status = "parsing" /\ parser.i > 1 /\ TopLevel(parser.lines[parser.i - 1]))
          => BuildsPersisted(parser.i - 1)
    /\ (parser.status = "failed" /\ HasSuffix(parser.msg, "is missing required command"))
          => BuildsPersisted(parser.i)

FileIRIs(paths) == {FileIRI(paths[k]) : k \in 1..Len(paths)}

\* the one build of the store is the build of the sections d
Decomposed(q, d) ==
    LET b == BuildIRI(Join(d.O, ","))
    IN  /\ BuildIRIs(q) = {b}
        /\ Written(q, b, "NinjaBuild")
        /\ Objects(q, b, IRI("build_id")) = {String(Join(d.O, ","))}
        /\ Objects(q, b, IRI("rule")) = {RuleIRI(d.R)}
        /\ Objects(q, b, String(PredicateHasOutput)) = {TargetIRI(d.O[k]) : k \in 1..Len(d.O)}
        /\ Objects(q, b, String(PredicateHasInput)) = FileIRIs(d.I)
        /\ Objects(q, b, String(PredicateHasImplicitDep)) = FileIRIs(d.M)
        /\ Objects(q, b, String(PredicateHasOrderDep)) = FileIRIs(d.D)

\* C31: a build line "build O1..On: R I1..Ik | M1..Mj || D1..Dm" that ends
\* a parse on an empty store leaves one build, named by the comma-join of
\* the outputs, with rule rule:R and exactly the outputs, inputs, implicit
\* deps and order-only deps of the line, whichever of I, M and D are empty.
C31_BuildLineDecomposition ==
    \A d \in Decompositions :
        (/\ parser.open /\ parser.status = "done"
         /\ parser.lines[Len(parser.lines)] = BuildLineText(d))
            => Decomposed(quads, d)

C31_Witness ==
    /\ parser.open /\ parser.status = "done"
    /\ parser.lines = <<"build o p: cc i j | m n || d e">>
    /\ Objects(quads, BuildIRI("o,p"), String(PredicateHasImplicitDep)) = {FileIRI("m"), FileIRI("n")}
    /\ Objects(quads, BuildIRI("o,p"), String(PredicateHasOrderDep)) = {FileIRI("d"), FileIRI("e")}

\* contents by their lines, with the position k of a build line that has
\* no colon
ColonlessTexts ==
    {[lines |-> <<"build a.o cc a.c">>, k |-> 1],
     [lines |-> <<"build a: cc b", "build a.o cc a.c">>, k |-> 2],
     [lines |-> <<"build a: cc b", "build a.o cc a.c", "  depfile = a.d">>, k |-> 2]}

\* the lines without line k
Deleted(lines, k) == SubSeq(lines, 1, k - 1) \o SubSeq(lines, k + 1, Len(lines))

SkippedLine(q, with, without) == ~with.err /\ with.quads = without.quads

\* C32: a build line without a colon is skipped: the parse does not fail
\* and the store after it is the store that the same text without that
\* line produces.
C32_ColonlessBuildSkipped ==
    \A t \in ColonlessTexts :
        SkippedLine(quads, ParseAndLoad(quads, Join(t.lines, "\n")),
                    ParseAndLoad(quads, Join(Deleted(t.lines, t.k), "\n")))

\* what call p has seen of the store so far
Progress(c) == <<c.phase, c.others, c.targetIRIs, c.loaded>>

\* C33: once a request is cancelled its iteration of the store goes no
\* further, and a cancelled request returns no result.
C33_Cancellation ==
    /\ [][\A p \in Procs :
            (calls[p].active /\ calls[p].cancelled /\ quads = quads')
                => Progress(calls'[p]) = Progress(calls[p])]_vars
    /\ [](\A p \in Procs :
            (calls[p].active /\ calls[p].cancelled) => calls[p].phase # "returned")

\* the text after the last "." of the path, in lower case; empty when the
\* path has no "."
Extension(path) ==
    IF LastIndex(path, ".") = -1 THEN ""
    ELSE ToLower(SubSeq(path, LastIndex(path, ".") + 2, Len(path)))

FileTypeOf(ext) ==
    CASE ext \in {"c", "cc", "cpp", "cxx"} -> "source"
      [] ext \in {"h", "hpp", "hxx"} -> "header"
      [] ext \in {"o", "obj"} -> "object"
      [] ext \in {"a", "lib"} -> "library"
      [] ext \in {"", "exe"} -> "executable"
      [] OTHER -> "unknown"

SamplePaths ==
    {"main.c", "x.CPP", "u.cc", "v.cxx", "a.h", "w.Hpp", "t.hxx", "main.o", "m.OBJ",
     "lib.a", "z.lib", "app.exe", "app.", "a.tar.gz", "dir.d/file", "app", "c", "Makefile"}

FileNodes(q) == Subjects(q, RdfType, IRI("NinjaFile"))

\* C34: the file type of every path is the one its extension gives, the
\* extension being the text after the last "." without regard to case and
\* empty when there is no "."; so it is for the sample paths and for every
\* file record of the store.
C34_FileTypeInference ==
    /\ \A path \in SamplePaths : inferFileType(path) = FileTypeOf(Extension(path))
    /\ \A f \in FileNodes(quads) : \A path \in Objects(quads, f, IRI("path")) :
          Objects(quads, f, IRI("file_type")) = {String(FileTypeOf(Extension(path[2])))}

\* C35: in every reachable state every target node has exactly one status
\* value.
C35_OneStatus ==
    \A t \in TargetIRIs(quads) : Cardinality(Objects(quads, t, IRI("status"))) = 1

\* the list c is a cycle of the graph d: distinct targets, each depending
\* on the next and the last on the first
Genuine(d, c) ==
    /\ Len(c) >= 1
    /\ \A i \in 1..Len(c) : c[i] \in DOMAIN d
    /\ \A i, j \in 1..Len(c) : i # j => c[i] # c[j]
    /\ \A i \in 1..(Len(c) - 1) : c[i + 1] \in d[c[i]]
    /\ c[1] \in d[c[Len(c)]]

\* the target-induced subgraph of the depends_on edges of the store
DependsOnGraph(q) ==
    [T \in TargetPaths(q) |->
        {U \in TargetPaths(q) : DependsOn(q, TargetIRI(T), FileIRI(U))}]

GenuineCycles(d, found) ==
    /\ ~found.err => \A k \in 1..Len(found.cycles) : Genuine(d, found.cycles[k])
    /\ ~HasCycle(d) => (~found.err /\ found.cycles = <<>>)

\* C36: every cycle find_cycles() returns is a cycle of the target graph,
\* and on an acyclic graph it returns the empty list and no error.
C36_CyclesGenuine ==
    \A snap \in Snapshots(quads) : GenuineCycles(DependsOnGraph(quads), FindCycles(snap))

\* call p has returned
Returned(p) == calls[p].active /\ calls[p].phase = "returned"

\* C37: two concurrent update_target_status calls on one existing target,
\* with the statuses s1 and s2, end with exactly one status value on the
\* target, s1 or s2, however their scans and transactions interleave, and
\* a call that returns without error has stored its status.
C37_ConcurrentStatusUpdates ==
    /\ [](\A p1, p2 \in Procs :
            (/\ p1 # p2 /\ Returned(p1) /\ Returned(p2)
             /\ calls[p1].path = calls[p2].path)
                => /\ Cardinality(StatusOf(quads, calls[p1].path)) = 1
                   /\ StatusOf(quads, calls[p1].path)
                         \subseteq {String(calls[p1].status), String(calls[p2].status)})
    /\ [][\A p \in Procs :
            (/\ calls[p].active /\ calls[p].phase = "apply"
             /\ calls'[p].phase = "returned" /\ ~calls'[p].err)
                => Quad(TargetIRI(calls[p].path), IRI("status"), String(calls[p].status))
                      \in quads']_vars

\* the quads that are in one of the two stores only
Changed(before, after) == (before \ after) \cup (after \ before)

\* C38: update_target_status(p, s) changes only status and last_modified
\* quads of target:p; every other quad of the store stays as it was.
C38_UpdateFrame ==
    [][\A p \in Paths : \A s \in Statuses :
          (UpdateTargetStatus(p, s) \/ RPCUpdateTargetStatus(p, s))
              => \A u \in Changed(quads, quads') :
                    /\ u[1] = TargetIRI(p)
                    /\ u[2] \in {IRI("status"), IRI("last_modified")}]_vars

\* target a was updated to "building" next to a target b that is still
\* "clean"; a kept its hash and its build
C38_Witness ==
    /\ StatusChangedTo(quads, "a", "building")
    /\ Objects(quads, TargetIRI("a"), IRI("hash")) = {String("none")}
    /\ Objects(quads, TargetIRI("a"), IRI("build")) # {}
    /\ StatusOf(quads, "b") = {String("clean")}

\* the call has returned, with an error or without
Returns(r) == r.err \in BOOLEAN

\* C39: ParseAndLoad comes to an end on every input, also when the last
\* line ends in "$": every round of its loop moves to a later line, never
\* beyond the line after the last one, or ends the parse.  On the graph
\* the input leaves in the store, with or without cycles and
\* self-dependent targets, get_build_order() and find_cycles() return.
C39_Termination ==
    /\ [][(parser.open /\ parser.status = "parsing") =>
            \/ parser'.status \in {"done", "failed"}
            \/ /\ parser'.status = "parsing"
               /\ parser'.i > parser.i
               /\ parser'.i <= Len(parser.lines) + 1]_vars
    /\ [](parser.status \in {"done", "failed"} =>
            \A snap \in Snapshots(quads) :
                /\ Returns(FindCycles(snap))
                /\ \A zero \in Zeros(snap) : Returns(GetBuildOrder(snap, zero)))

\* the parse of a text whose last line ends in "$" is over and the store
\* holds a target that depends on itself and one that depends on another
C39_Witness ==
    /\ parser.open /\ parser.status = "done"
    /\ HasSuffix(parser.lines[Len(parser.lines)], "$")
    /\ DependsOn(quads, TargetIRI("a"), FileIRI("a"))
    /\ DependsOn(quads, TargetIRI("b"), FileIRI("a"))
    /\ \E snap \in Snapshots(quads) : FindCycles(snap).cycles # <<>>
====
